---- MODULE Spec2Model ----
(***************************************************************************)
(* Verification model of the Polymarket trading bots:                      *)
(*   - polymarket-arbitrage-bot: book callback, latch, dedup set, arb pair *)
(*   - polymarket-copy-trading-bot: activity monitor, store, executor loop *)
(*     and the buy / sell / merge strategies.                              *)
(*                                                                         *)
(* Numbers.  The source carries prices, USDC and token amounts as f64.     *)
(* The model carries them as exact fixed point: prices and USDC amounts in *)
(* units of 1e-5 dollar, token amounts in units of 1e-2 token.  Floating   *)
(* point rounding error is outside the model, except in the interpolation  *)
(* of the adaptive sizing policy, whose operations round (see fl).         *)
(*                                                                         *)
(* Locks.  tokio Mutex::lock().await and blocking_lock() are both modelled *)
(* as the acquisition of the mutex.                                        *)
(***************************************************************************)
EXTENDS Integers, Sequences, FiniteSets, TLC

VARIABLES
    \* ---- arbitrage bot ------------------------------------------------
    market,               \* index of the market the installed callback serves
    time_until_end,       \* ms until end_date of the current market
    clob_client,          \* "none" | "some": the lazily created trading client
    orderbooks,           \* cached snapshot per side of the current market
    is_executing_trade,   \* the latch (Mutex<bool>)
    recent_opportunities, \* the dedup set (Mutex<HashSet<String>>)
    arbitrage_history,    \* PriceMonitor.arbitrage_history of the coin (its newest
                          \* HistoryKept entries)
    monitor_lock,         \* owner of the PriceMonitor mutex (0 = free)
    is_exec_lock,         \* owner of the latch mutex (0 = free)
    callbacks,            \* the spawned book-callback tasks
    trade_tasks,          \* the spawned execute_arbitrage_trade tasks
    book_updates,         \* number of book messages handled so far
    ws_conn,              \* MarketWebSocket::run: "connecting" | "open" | "waiting"
                          \* ("panicked": the task of run has ended in a panic)
    subscribed_assets,    \* MarketWebSocket.subscribed_assets: the market whose
                          \* two tokens are stored (0 = empty)
    ws_subscription,      \* the market whose tokens the subscription frame sent
                          \* on the open connection carried (0 = no frame sent)
    \* ---- copy-trading bot --------------------------------------------
    trade_aggregation_enabled, \* TRADE_AGGREGATION_ENABLED of the configuration
    activities,           \* the leader's activity collection; a row's _id is its index
    monitor_last,         \* what process_trade_activity did with the last payload
    executor,             \* position and locals of run_trade_executor
    aggregation_buffer,   \* the group of the aggregation buffer
    strategy,             \* locals of the running buy / sell / merge strategy
    dispatch_count,       \* per row: times post_order was called for it
    last_order,           \* the child order the last pass of a strategy loop built
    main_pc,              \* position of main: "startup" | "monitor_started" |
                          \* "running" | "stopping" | "ended" | "failed"
    rtds_conn,            \* position of connect_rtds
    reconnect_attempts,   \* the AtomicU32 of the same name
    rtds_delay,           \* seconds connect_rtds slept before its last connect
    copy_strategy_config, \* EnvConfig.copy_strategy_config
    order_calc,           \* the OrderSizeCalculation of the last call of the
                          \* sizer made on its own, with the arguments of the call
    failed_orders,        \* history: the parent trade whose child order last got
                          \* a transient error, and how many of its orders did;
                          \* posted: the child orders it has posted; spent:
                          \* the USDC of its orders that were filled
    fetch,                \* a call of fetch_data made on its own: its position,
                          \* its attempt and the history of its attempts
    tier_call             \* a call of parse_tiered_multipliers made on its own,
                          \* and of get_trade_multiplier on what it accepted

ws_vars == << ws_conn, subscribed_assets, ws_subscription >>

arb_vars == << market, time_until_end, clob_client, orderbooks,
               is_executing_trade, recent_opportunities, arbitrage_history,
               monitor_lock, is_exec_lock, callbacks, trade_tasks,
               book_updates, ws_vars >>

sizer_vars == << copy_strategy_config, order_calc, failed_orders, fetch,
                tier_call >>

sys_vars == << main_pc, rtds_conn, reconnect_attempts, rtds_delay, sizer_vars >>

copy_vars == << trade_aggregation_enabled, activities, monitor_last, executor,
                aggregation_buffer, strategy, dispatch_count,
                last_order, sys_vars >>

vars == << arb_vars, copy_vars >>

----------------------------------------------------------------------------
\* Bounds of the model
MaxCallbacks == 2
MaxTrades == 2
MaxBookUpdates == 3
MaxMarkets == 2
HistoryKept == 1
MaxActivities == 4
MaxBuffered == 2
MantissaBits == 5
MaxNetworkRetryLimit == 3
MaxChildOrders == 20

----------------------------------------------------------------------------
\* Fixed point helpers

\* n dollars in units of 1e-5 dollar
USD(n) == n * 100000

Max(a, b) == IF a >= b THEN a ELSE b
Min(a, b) == IF a <= b THEN a ELSE b

\* floor_to_decimals(value, 4) on a value in units of 1e-5
floor_to_4dp(x) == (x \div 10) * 10

\* format!("{:.4}", x): x in units of 1e-5 rounded to the nearest 1e-4,
\* given in units of 1e-4
format_4dp(x) == (x + 5) \div 10

\* floor_to_decimals(tokens * price, 4): tokens in 1e-2, price in 1e-5,
\* result in 1e-5
floor_usdc(tokens, price) == ((tokens * price) \div 1000) * 10

\* Program constants of the arbitrage bot
TOKEN_AMOUNT == 500
MIN_TOKEN_AMOUNT == 500
ARB_MIN_ORDER_SIZE_USD == 100000
ARBITRAGE_THRESHOLD == 100000
MAX_RECENT_OPPORTUNITIES == 50
MAX_ARBITRAGE_HISTORY == 10
MIN_TIME_TO_TRADE_MS == 5000

----------------------------------------------------------------------------
\* ARBITRAGE BOT

Sides == {"UP", "DOWN"}

\* Raw ask levels (prices, in wire order) a book message can carry
RawBooks == { << >>, <<47000>>, <<60000, 52004>> }

\* time_until_end values the clock passes through, in ms
TimePoints == {30000, 5000, 0}
FullWindow == 30000

NoSnap == [present |-> FALSE, asks |-> << >>]

RECURSIVE InsertAsc(_, _)
InsertAsc(x, s) ==
    IF s = << >> THEN <<x>>
    ELSE IF x <= Head(s) THEN <<x>> \o s
    ELSE <<Head(s)>> \o InsertAsc(x, Tail(s))

RECURSIVE SortAsc(_)
SortAsc(s) == IF s = << >> THEN << >> ELSE InsertAsc(Head(s), SortAsc(Tail(s)))

\* MarketWebSocket::parse_orderbook_snapshot: asks sorted ascending
parse_orderbook_snapshot(raw) == [present |-> TRUE, asks |-> SortAsc(raw)]

\* first ask of a snapshot, 0.0 when there is none
BestAsk(snap) == IF snap.present /\ snap.asks # << >> THEN snap.asks[1] ELSE 0

\* create_price_data
create_price_data(up_snap, down_snap) ==
    [ up_ask   |-> BestAsk(up_snap),
      down_ask |-> BestAsk(down_snap),
      ask_sum  |-> BestAsk(up_snap) + BestAsk(down_snap) ]

NoPd == [up_ask |-> 0, down_ask |-> 0, ask_sum |-> 0]

\* format!("{:.4}_{:.4}", up_ask, down_ask)
opportunity_key(pd) == << format_4dp(pd.up_ask), format_4dp(pd.down_ask) >>

\* PriceMonitor::record_arbitrage: push, keep the last 10.  The list is only
\* appended to and cut at the front, so the model, which keeps its newest
\* HistoryKept <= 10 entries, holds exactly the tail of the program's list.
record_arbitrage(history, pd) ==
    LET pushed == Append(history, [up_ask |-> pd.up_ask, down_ask |-> pd.down_ask])
        keep   == Min(HistoryKept, MAX_ARBITRAGE_HISTORY)
    IN  IF Len(pushed) > keep THEN Tail(pushed) ELSE pushed

\* calculate_precise_amounts, the loop body; t in 1e-2 token, p in 1e-5
RECURSIVE PreciseIter(_, _, _)
PreciseIter(t, p, n) ==
    IF n = 0 THEN << t, floor_usdc(t, p) >>
    ELSE LET usdc == floor_usdc(t, p)
             num  == 100 * usdc
             fl   == num \div p
             near == (num % p) * 10000 < p
         IN  IF near /\ fl >= 1 THEN << fl, usdc >>
             ELSE IF fl < 1 THEN << 1, floor_usdc(1, p) >>
             ELSE PreciseIter(fl, p, n - 1)

calculate_precise_amounts(target, p) ==
    PreciseIter(IF target < 1 THEN 1 ELSE target, p, 10)

NoOrder == [ok |-> FALSE, usdc |-> 0, price |-> 0, tokens |-> 0]

\* execute_buy_order up to the point where the order is built
execute_buy_order(amount_usdc, ask_price) ==
    IF amount_usdc < ARB_MIN_ORDER_SIZE_USD THEN NoOrder
    ELSE IF ask_price <= 0 THEN NoOrder
    ELSE LET fp == floor_to_4dp(ask_price) IN
         IF fp <= 0 THEN NoOrder
         ELSE LET share0 == Max(Max((100 * amount_usdc) \div fp,
                                    (100 * ARB_MIN_ORDER_SIZE_USD) \div fp),
                                MIN_TOKEN_AMOUNT)
                  pa  == calculate_precise_amounts(share0, fp)
                  fin == IF pa[1] < MIN_TOKEN_AMOUNT
                         THEN calculate_precise_amounts(MIN_TOKEN_AMOUNT, fp)
                         ELSE pa
              IN  IF fin[2] < ARB_MIN_ORDER_SIZE_USD THEN NoOrder
                  ELSE [ok |-> TRUE, usdc |-> fin[2], price |-> fp, tokens |-> fin[1]]

\* calculate_trade_amounts
calculate_trade_amounts(up_price, down_price) ==
    [ token_amount |-> TOKEN_AMOUNT,
      up_amount_usdc |-> floor_usdc(TOKEN_AMOUNT, up_price),
      down_amount_usdc |-> floor_usdc(TOKEN_AMOUNT, down_price) ]

CbIds == 1..MaxCallbacks
TrIds == 1..MaxTrades

\* A callback task: its position, the market of the callback that spawned it,
\* whether the snapshot's asset_id is one of that market's tokens, and the
\* locals time_until_end and price_data (kept only while still read)
IdleCb == [pc |-> "idle", market |-> 0, ours |-> TRUE, tue |-> 0, pd |-> NoPd]

\* A leg of the pair before execute_buy_order has run for it
NoLeg == [submitted |-> FALSE, success |-> FALSE, usdc |-> 0, price |-> 0, tokens |-> 0]

\* A trade task: its position, the prices and the Env (its token_amount, 5.0
\* when TOKEN_AMOUNT is unset) execute_arbitrage_trade was given, the results
\* of its two legs, what it returned, and the order in which its legs were
\* handed to the exchange and came back
IdleTrade == [pc |-> "idle", up_price |-> 0, down_price |-> 0, env_token_amount |-> 500,
              up |-> NoLeg, down |-> NoLeg, both_success |-> FALSE,
              result |-> "none", log |-> << >>]

\* The state when the first discover_and_monitor returns: run() was spawned
\* one second before subscribe() stored the tokens of the first market, so the
\* socket is either still connecting or it connected while nothing was stored
ArbInit ==
    /\ market = 1
    /\ time_until_end = FullWindow
    /\ clob_client \in {"none", "some"}
    /\ orderbooks = [s \in Sides |-> NoSnap]
    /\ is_executing_trade = FALSE
    /\ recent_opportunities = {}
    /\ arbitrage_history = << >>
    /\ monitor_lock = 0
    /\ is_exec_lock = 0
    /\ callbacks = [c \in CbIds |-> IdleCb]
    /\ trade_tasks = [t \in TrIds |-> IdleTrade]
    /\ book_updates = 0
    /\ ws_conn \in {"connecting", "open"}
    /\ subscribed_assets = 1
    /\ ws_subscription = 0

\* The wall clock advances
Tick ==
    /\ \E t \in TimePoints : t < time_until_end /\ time_until_end' = t
    /\ UNCHANGED << market, clob_client, orderbooks, is_executing_trade,
                    recent_opportunities, arbitrage_history, monitor_lock,
                    is_exec_lock, callbacks, trade_tasks, book_updates >>
    /\ UNCHANGED copy_vars
    /\ UNCHANGED ws_vars

\* monitor_market_loop sees the market closed and discover_and_monitor installs
\* the callback of the next market and stores its tokens with subscribe(); the
\* client is created if still missing
Rollover ==
    /\ time_until_end <= 0
    /\ market < MaxMarkets
    /\ market' = market + 1
    /\ time_until_end' = FullWindow
    /\ clob_client' \in (IF clob_client = "none" THEN {"none", "some"} ELSE {"some"})
    /\ orderbooks' = [s \in Sides |-> NoSnap]
    /\ subscribed_assets' = market + 1
    /\ UNCHANGED << is_executing_trade, recent_opportunities, arbitrage_history,
                    monitor_lock, is_exec_lock, callbacks, trade_tasks, book_updates,
                    ws_conn, ws_subscription >>
    /\ UNCHANGED copy_vars

\* MarketWebSocket::handle_message for one book message: cache the snapshot and
\* call the installed callback, which spawns a task.  A message for a token of
\* an earlier market (stale) is cached under an id the current callback never
\* reads.  The exchange sends the books of the tokens the subscription frame of
\* the open connection carried.
HandleMessage(c, side, raw, stale) ==
    /\ book_updates < MaxBookUpdates
    /\ ws_conn = "open"
    /\ ws_subscription # 0
    /\ stale = (ws_subscription # market)
    /\ callbacks[c].pc = "idle"
    /\ \A d \in CbIds : d < c => callbacks[d].pc # "idle"
    /\ stale => market > 1
    /\ book_updates' = book_updates + 1
    /\ orderbooks' = IF stale THEN orderbooks
                     ELSE [orderbooks EXCEPT ![side] = parse_orderbook_snapshot(raw)]
    /\ callbacks' = [callbacks EXCEPT ![c] =
                        [IdleCb EXCEPT !.pc = "start", !.market = market,
                                       !.ours = ~stale]]
    /\ UNCHANGED << market, time_until_end, clob_client, is_executing_trade,
                    recent_opportunities, arbitrage_history, monitor_lock,
                    is_exec_lock, trade_tasks >>
    /\ UNCHANGED copy_vars
    /\ UNCHANGED ws_vars

\* time_until_end as the callback of market m computes it
TimeUntilEnd(m) == IF m = market THEN time_until_end ELSE 0 - 1

\* Book callback, lines 213-250, 267: the close gate, the token check, the two
\* cache reads and create_price_data
CbGate(c) ==
    LET cb  == callbacks[c]
        tue == TimeUntilEnd(cb.market)
        pd  == create_price_data(orderbooks["UP"], orderbooks["DOWN"])
    IN
    /\ cb.pc = "start"
    /\ callbacks' = [callbacks EXCEPT ![c] =
          IF tue <= 0 THEN [IdleCb EXCEPT !.pc = "closed_check"]
          ELSE IF ~cb.ours THEN IdleCb
          ELSE IF ~(orderbooks["UP"].present /\ orderbooks["DOWN"].present) THEN IdleCb
          ELSE IF pd.ask_sum < ARBITRAGE_THRESHOLD
               THEN [IdleCb EXCEPT !.pc = "detect", !.tue = tue, !.pd = pd]
               ELSE [IdleCb EXCEPT !.pc = "history"]]
    /\ UNCHANGED << market, time_until_end, clob_client, orderbooks,
                    is_executing_trade, recent_opportunities, arbitrage_history,
                    monitor_lock, is_exec_lock, trade_tasks, book_updates >>
    /\ UNCHANGED copy_vars
    /\ UNCHANGED ws_vars

\* line 221: if !*is_executing.lock().await
CbClosedCheck(c) ==
    /\ callbacks[c].pc = "closed_check"
    /\ is_exec_lock = 0
    /\ callbacks' = [callbacks EXCEPT ![c] =
          IF is_executing_trade THEN IdleCb ELSE [@ EXCEPT !.pc = "closed_set"]]
    /\ UNCHANGED << market, time_until_end, clob_client, orderbooks,
                    is_executing_trade, recent_opportunities, arbitrage_history,
                    monitor_lock, is_exec_lock, trade_tasks, book_updates >>
    /\ UNCHANGED copy_vars
    /\ UNCHANGED ws_vars

\* line 232: *is_executing.lock().await = true
CbClosedSet(c) ==
    /\ callbacks[c].pc = "closed_set"
    /\ is_exec_lock = 0
    /\ is_executing_trade' = TRUE
    /\ callbacks' = [callbacks EXCEPT ![c] = IdleCb]
    /\ UNCHANGED << market, time_until_end, clob_client, orderbooks,
                    recent_opportunities, arbitrage_history, monitor_lock,
                    is_exec_lock, trade_tasks, book_updates >>
    /\ UNCHANGED copy_vars
    /\ UNCHANGED ws_vars
\* the detection block with a monitor mutex that excludes nobody
CbDetect_unguarded(c) ==
    /\ callbacks[c].pc = "detect"
    /\ arbitrage_history' = record_arbitrage(arbitrage_history, callbacks[c].pd)
    /\ IF clob_client = "some"
       THEN /\ callbacks' = [callbacks EXCEPT ![c].pc = "latch"]
            /\ monitor_lock' = c
       ELSE /\ callbacks' = [callbacks EXCEPT ![c] = [IdleCb EXCEPT !.pc = "history"]]
            /\ monitor_lock' = 0
    /\ UNCHANGED << market, time_until_end, clob_client, orderbooks,
                    is_executing_trade, recent_opportunities, is_exec_lock,
                    trade_tasks, book_updates >>
    /\ UNCHANGED copy_vars
    /\ UNCHANGED ws_vars

\* lines 268-289: monitor.lock().await; record_arbitrage; the client guard is
\* taken, looked at and dropped; without a client the block ends and the
\* monitor guard is dropped
CbDetect(c) ==
    /\ callbacks[c].pc = "detect"
    /\ monitor_lock = 0
    /\ arbitrage_history' = record_arbitrage(arbitrage_history, callbacks[c].pd)
    /\ IF clob_client = "some"
       THEN /\ callbacks' = [callbacks EXCEPT ![c].pc = "latch"]
            /\ monitor_lock' = c
       ELSE /\ callbacks' = [callbacks EXCEPT ![c] = [IdleCb EXCEPT !.pc = "history"]]
            /\ monitor_lock' = 0
    /\ UNCHANGED << market, time_until_end, clob_client, orderbooks,
                    is_executing_trade, recent_opportunities, is_exec_lock,
                    trade_tasks, book_updates >>
    /\ UNCHANGED copy_vars
    /\ UNCHANGED ws_vars

\* line 291: let mut is_exec = is_executing.lock().await
CbLatch(c) ==
    /\ callbacks[c].pc = "latch"
    /\ is_exec_lock = 0
    /\ is_exec_lock' = c
    /\ callbacks' = [callbacks EXCEPT ![c].pc = "dedup"]
    /\ UNCHANGED << market, time_until_end, clob_client, orderbooks,
                    is_executing_trade, recent_opportunities, arbitrage_history,
                    monitor_lock, trade_tasks, book_updates >>
    /\ UNCHANGED copy_vars
    /\ UNCHANGED ws_vars

\* the condition of line 295 without its is_market_open conjunct
CanTrade_ignoring_time(latch, opps, key, tue) ==
    ~latch /\ key \notin opps

\* line 295: the condition under which the callback starts a trade
CanTrade(latch, opps, key, tue) ==
    ~latch /\ key \notin opps /\ tue > MIN_TIME_TO_TRADE_MS

\* the set after the insert when nothing is ever removed
EvictNone(opps) == {opps}

\* lines 299-305: one key is removed when the set holds more than 50; a
\* HashSet iterates in no particular order, so any key may be the one
EvictChoices(opps) ==
    IF Cardinality(opps) > MAX_RECENT_OPPORTUNITIES
    THEN {opps \ {k} : k \in opps}
    ELSE {opps}

\* lines 292-331: the dedup guard is taken (only a holder of the latch guard
\* ever asks for it), the decision is made, the guards are dropped, the trade
\* task is spawned and the block ends, dropping the monitor guard
CbDedup(c) ==
    LET cb  == callbacks[c]
        key == opportunity_key(cb.pd)
    IN
    /\ cb.pc = "dedup"
    /\ IF CanTrade(is_executing_trade, recent_opportunities, key, cb.tue)
       THEN \E t \in TrIds :
              /\ trade_tasks[t].pc = "idle"
              /\ \A u \in TrIds : u < t => trade_tasks[u].pc # "idle"
              /\ is_executing_trade' = TRUE
              /\ recent_opportunities' \in EvictChoices(recent_opportunities \cup {key})
              /\ trade_tasks' = [trade_tasks EXCEPT ![t] =
                    [IdleTrade EXCEPT !.pc = "start",
                                      !.up_price = cb.pd.up_ask,
                                      !.down_price = cb.pd.down_ask]]
       ELSE /\ is_executing_trade' = FALSE
            /\ UNCHANGED << recent_opportunities, trade_tasks >>
    /\ is_exec_lock' = 0
    /\ monitor_lock' = 0
    /\ callbacks' = [callbacks EXCEPT ![c] = [IdleCb EXCEPT !.pc = "history"]]
    /\ UNCHANGED << market, time_until_end, clob_client, orderbooks,
                    arbitrage_history, book_updates >>
    /\ UNCHANGED copy_vars
    /\ UNCHANGED ws_vars

\* lines 335-339: monitor.lock().await; add_to_history; display
CbHistory(c) ==
    /\ callbacks[c].pc = "history"
    /\ monitor_lock = 0
    /\ callbacks' = [callbacks EXCEPT ![c] = IdleCb]
    /\ UNCHANGED << market, time_until_end, clob_client, orderbooks,
                    is_executing_trade, recent_opportunities, arbitrage_history,
                    monitor_lock, is_exec_lock, trade_tasks, book_updates >>
    /\ UNCHANGED copy_vars
    /\ UNCHANGED ws_vars

\* lines 315-327: the spawned task awaits execute_arbitrage_trade, which touches
\* none of the shared state, and then writes *is_exec_clone.lock().await = false.
\* The call is taken in one step with the write ("start"), or the write follows
\* the steps of the call ("returned").
TradeTask(t) ==
    /\ trade_tasks[t].pc \in {"start", "returned"}
    /\ is_exec_lock = 0
    /\ is_executing_trade' = FALSE
    /\ trade_tasks' = [trade_tasks EXCEPT ![t] = IdleTrade]
    /\ UNCHANGED << market, time_until_end, clob_client, orderbooks,
                    recent_opportunities, arbitrage_history, monitor_lock,
                    is_exec_lock, callbacks, book_updates >>
    /\ UNCHANGED copy_vars
    /\ UNCHANGED ws_vars

\* MarketWebSocket::run, lines 178-189: the subscription frame sent right after
\* the connection is made carries the stored asset ids; none is sent when the
\* list is empty
SubscriptionFrame(stored) == stored

\* MarketWebSocket::run: connect().await; on success the subscription frame is
\* sent and the message loop is entered, on failure the loop sleeps 5 s
WsConnect(ok) ==
    /\ ws_conn = "connecting"
    /\ IF ok
       THEN /\ ws_conn' = "open"
            /\ ws_subscription' = SubscriptionFrame(subscribed_assets)
       ELSE /\ ws_conn' = "waiting"
            /\ ws_subscription' = 0
    /\ UNCHANGED << market, time_until_end, clob_client, orderbooks,
                    is_executing_trade, recent_opportunities, arbitrage_history,
                    monitor_lock, is_exec_lock, callbacks, trade_tasks,
                    book_updates, subscribed_assets >>
    /\ UNCHANGED copy_vars

\* MarketWebSocket::run, lines 201-209: a Close frame, a socket error or the end
\* of the stream leaves the message loop
WsDisconnect ==
    /\ ws_conn = "open"
    /\ ws_conn' = "waiting"
    /\ ws_subscription' = 0
    /\ UNCHANGED << market, time_until_end, clob_client, orderbooks,
                    is_executing_trade, recent_opportunities, arbitrage_history,
                    monitor_lock, is_exec_lock, callbacks, trade_tasks,
                    book_updates, subscribed_assets >>
    /\ UNCHANGED copy_vars

\* MarketWebSocket::run, line 223: the 5 s sleep before the next connect
WsSleep ==
    /\ ws_conn = "waiting"
    /\ ws_conn' = "connecting"
    /\ UNCHANGED << market, time_until_end, clob_client, orderbooks,
                    is_executing_trade, recent_opportunities, arbitrage_history,
                    monitor_lock, is_exec_lock, callbacks, trade_tasks,
                    book_updates, subscribed_assets, ws_subscription >>
    /\ UNCHANGED copy_vars

\* execute_arbitrage_trade and execute_buy_order, step by step

\* Outcomes of handing one order to the exchange: create_market_order fails
\* (nothing is posted); post_order fails or answers success = false; success
GatewayOutcomes == {"create_failed", "rejected", "filled"}

\* line 255 with "or" in the place of "and"
both_success_either(up_result, down_result) == up_result.success \/ down_result.success

\* line 255: let both_success = up_result.success && down_result.success
both_success(up_result, down_result) == up_result.success /\ down_result.success

LegOf(task, side) == IF side = "UP" THEN task.up ELSE task.down

SetLeg(task, side, leg) ==
    IF side = "UP" THEN [task EXCEPT !.up = leg] ELSE [task EXCEPT !.down = leg]

AfterLeg(side) == IF side = "UP" THEN "DOWN" ELSE "finish"

ArbRest == << market, time_until_end, clob_client, orderbooks,
              is_executing_trade, recent_opportunities, arbitrage_history,
              monitor_lock, is_exec_lock, callbacks, book_updates >>

\* execute_arbitrage_trade, lines 222-240: the price check, the amounts and the
\* minimum check; an Err returns before any leg
PairStart(t) ==
    LET task == trade_tasks[t]
        amts == calculate_trade_amounts(task.up_price, task.down_price)
        bad  == \/ task.up_price <= 0 \/ task.down_price <= 0
                \/ amts.up_amount_usdc < ARB_MIN_ORDER_SIZE_USD
                \/ amts.down_amount_usdc < ARB_MIN_ORDER_SIZE_USD
    IN
    /\ task.pc = "start"
    /\ trade_tasks' = [trade_tasks EXCEPT ![t] =
          IF bad THEN [task EXCEPT !.pc = "returned", !.result = "err"]
          ELSE [task EXCEPT !.pc = "UP"]]
    /\ UNCHANGED ArbRest
    /\ UNCHANGED copy_vars
    /\ UNCHANGED ws_vars

\* execute_buy_order for one leg up to the post: the validation and the
\* amounts; create_market_order; the signed order is handed to post_order
PairSubmit(t, created) ==
    LET task  == trade_tasks[t]
        side  == task.pc
        amts  == calculate_trade_amounts(task.up_price, task.down_price)
        order == IF side = "UP"
                 THEN execute_buy_order(amts.up_amount_usdc, task.up_price)
                 ELSE execute_buy_order(amts.down_amount_usdc, task.down_price)
    IN
    /\ task.pc \in Sides
    /\ trade_tasks' = [trade_tasks EXCEPT ![t] =
          IF order.ok /\ created
          THEN [SetLeg(task, side, [submitted |-> TRUE, success |-> FALSE,
                                    usdc |-> order.usdc, price |-> order.price,
                                    tokens |-> order.tokens])
                  EXCEPT !.pc = "posted", !.log = Append(task.log, << side, "post" >>)]
          ELSE [task EXCEPT !.pc = AfterLeg(side)]]
    /\ UNCHANGED ArbRest
    /\ UNCHANGED copy_vars
    /\ UNCHANGED ws_vars

\* execute_buy_order: post_order(..).await comes back with resp.success, or
\* with success = false or an error
PairReturn(t, filled) ==
    LET task == trade_tasks[t]
        side == task.log[Len(task.log)][1]
    IN
    /\ task.pc = "posted"
    /\ trade_tasks' = [trade_tasks EXCEPT ![t] =
          [SetLeg(task, side, [LegOf(task, side) EXCEPT !.success = filled])
             EXCEPT !.pc = AfterLeg(side), !.log = Append(task.log, << side, "back" >>)]]
    /\ UNCHANGED ArbRest
    /\ UNCHANGED copy_vars
    /\ UNCHANGED ws_vars

\* execute_arbitrage_trade, lines 255-282: both_success and the Ok result
PairFinish(t) ==
    LET task == trade_tasks[t] IN
    /\ task.pc = "finish"
    /\ trade_tasks' = [trade_tasks EXCEPT ![t] =
          [task EXCEPT !.pc = "returned", !.result = "ok",
                       !.both_success = both_success(task.up, task.down)]]
    /\ UNCHANGED ArbRest
    /\ UNCHANGED copy_vars
    /\ UNCHANGED ws_vars

ArbNext ==
    \/ Tick
    \/ Rollover
    \/ \E c \in CbIds, side \in Sides, raw \in RawBooks, stale \in BOOLEAN :
          HandleMessage(c, side, raw, stale)
    \/ \E c \in CbIds : CbGate(c)
    \/ \E c \in CbIds : CbClosedCheck(c)
    \/ \E c \in CbIds : CbClosedSet(c)
    \/ \E c \in CbIds : CbDetect(c)
    \/ \E c \in CbIds : CbLatch(c)
    \/ \E c \in CbIds : CbDedup(c)
    \/ \E c \in CbIds : CbHistory(c)
    \/ \E t \in TrIds : TradeTask(t)
    \/ \E ok \in BOOLEAN : WsConnect(ok)
    \/ WsDisconnect
    \/ WsSleep

----------------------------------------------------------------------------
\* COPY-TRADING BOT: the activity stream connection

MAX_RECONNECT_ATTEMPTS == 10
RECONNECT_DELAY_SECS == 5
MAX_DELAY_FACTOR == 5

CopyRest == << trade_aggregation_enabled, activities, monitor_last, executor,
               aggregation_buffer, strategy, dispatch_count, last_order, sizer_vars >>

\* connect_rtds, line 398: RECONNECT_DELAY_SECS * attempts.min(5)
reconnect_delay(attempts) ==
    RECONNECT_DELAY_SECS * (IF attempts < MAX_DELAY_FACTOR THEN attempts ELSE MAX_DELAY_FACTOR)

\* connect_rtds, lines 293-303: the RUNNING test and connect_async; a made
\* connection resets the attempt counter
RtdsConnect(ok) ==
    /\ rtds_conn = "connecting"
    /\ main_pc = "running"
    /\ IF ok
       THEN rtds_conn' = "subscribing" /\ reconnect_attempts' = 0
       ELSE rtds_conn' = "lost" /\ UNCHANGED reconnect_attempts
    /\ UNCHANGED << main_pc, rtds_delay >>
    /\ UNCHANGED CopyRest
    /\ UNCHANGED arb_vars

\* connect_rtds, lines 305-323: the subscription message is sent; when the
\* send fails the loop continues
RtdsSubscribe(ok) ==
    /\ rtds_conn = "subscribing"
    /\ rtds_conn' = IF ok THEN "open" ELSE "connecting"
    /\ UNCHANGED << main_pc, reconnect_attempts, rtds_delay >>
    /\ UNCHANGED CopyRest
    /\ UNCHANGED arb_vars

\* connect_rtds, lines 377-391: a Close frame, a socket error or the end of the
\* stream ends the message task
RtdsLost ==
    /\ rtds_conn = "open"
    /\ rtds_conn' = "lost"
    /\ UNCHANGED << main_pc, reconnect_attempts, rtds_delay >>
    /\ UNCHANGED CopyRest
    /\ UNCHANGED arb_vars

\* connect_rtds, lines 395-411: the counter is raised; below the maximum the
\* task sleeps for the delay, at the maximum it leaves the loop
RtdsBackoff ==
    LET attempts == reconnect_attempts + 1 IN
    /\ rtds_conn = "lost"
    /\ main_pc = "running"
    /\ reconnect_attempts' = attempts
    /\ IF attempts < MAX_RECONNECT_ATTEMPTS
       THEN rtds_conn' = "sleeping" /\ rtds_delay' = reconnect_delay(attempts)
       ELSE rtds_conn' = "gave_up" /\ UNCHANGED rtds_delay
    /\ UNCHANGED main_pc
    /\ UNCHANGED CopyRest
    /\ UNCHANGED arb_vars

\* the sleep of line 403 is over
RtdsWake ==
    /\ rtds_conn = "sleeping"
    /\ rtds_conn' = "connecting"
    /\ UNCHANGED << main_pc, reconnect_attempts, rtds_delay >>
    /\ UNCHANGED CopyRest
    /\ UNCHANGED arb_vars

----------------------------------------------------------------------------
\* COPY-TRADING BOT: the activity store and the monitor

\* Program constants of the copy-trading bot
MIN_ORDER_SIZE_USD == 100000
MIN_ORDER_SIZE_TOKENS == 100
TRADE_AGGREGATION_MIN_TOTAL_USD == 100000
ORDER_EXPIRY_SECS == 90
\* defaults of the configuration
retry_limit == 3
copy_size == 10
max_order_size_usd == 10000000
min_order_size_usd == 100000

\* Transaction hashes a payload can carry ("" is a missing or empty hash)
TxHashes == {"", "0xa", "0xb"}

\* Leader trades the activity stream reports: side, size (1e-2 token) and price
TradeShapes ==
    { [side |-> "BUY",  size |-> 100,  price |-> 50000],
      [side |-> "BUY",  size |-> 4000, price |-> 50000],
      [side |-> "SELL", size |-> 4000, price |-> 50000] }

\* RtdsActivity::usdc_size: size * price
usdc_size(size, price) == (size * price) \div 100

\* A BUY row an earlier run of the bot has processed: bot = true and the tokens
\* it bought tracked in my_bought_size
ProcessedBuy(tx, bought) ==
    [tx |-> tx, side |-> "BUY", size |-> 4000, usdc_size |-> 2000000,
     bot |-> TRUE, bot_executed_time |-> 1, my_bought_size |-> bought]

\* The stores the bot can start on
InitialStores ==
    { << >>, << ProcessedBuy("0xh1", 200), ProcessedBuy("0xh2", 200) >> }

\* the look-up of a store that never finds the hash
find_activity_by_tx_never(rows, tx) == FALSE

\* Db::find_activity_by_tx(..).is_some()
find_activity_by_tx(rows, tx) == \E i \in 1..Len(rows) : rows[i].tx = tx

\* Db::update_activity: $set of the fields of doc on the row with this _id
update_activity(rows, id, doc) ==
    [rows EXCEPT ![id] =
        [f \in DOMAIN rows[id] |-> IF f \in DOMAIN doc THEN doc[f] ELSE rows[id][f]]]

\* process_trade_activity for one payload of the one tracked leader.  The
\* monitor handles one message at a time, so the look-up and the insert are
\* not interleaved with another payload.  db_ok = FALSE: the look-up or the
\* insert returns an error.
ProcessTradeActivity(tx, shape, too_old, db_ok) ==
    LET doc == [tx |-> tx, side |-> shape.side, size |-> shape.size,
                usdc_size |-> usdc_size(shape.size, shape.price),
                bot |-> FALSE, bot_executed_time |-> 0, my_bought_size |-> 0]
        outcome == IF too_old THEN "too_old"
                   ELSE IF tx = "" THEN "empty_hash"
                   ELSE IF ~db_ok THEN "error"
                   ELSE IF find_activity_by_tx(activities, tx) THEN "duplicate"
                   ELSE "inserted"
    IN
    /\ rtds_conn = "open"
    /\ main_pc \in {"running", "stopping"}
    /\ outcome = "inserted" => Len(activities) < MaxActivities
    /\ monitor_last' = outcome
    /\ activities' = IF outcome = "inserted" THEN Append(activities, doc) ELSE activities
    /\ UNCHANGED << trade_aggregation_enabled, executor, aggregation_buffer,
                    strategy, dispatch_count, last_order >>
    /\ UNCHANGED << arb_vars, sys_vars >>

----------------------------------------------------------------------------
\* COPY-TRADING BOT: the copy sizer and the strategies of post_order

\* format!("{:.2}", x) of a price or a USDC amount, x in units of 1e-5
format_2dp(x) == ((x + 500) \div 1000) * 1000

\* Option<f64>: << >> is None, << x >> is Some(x)
unwrap_or(opt, default) == IF opt = << >> THEN default ELSE opt[1]

\* The configuration parse_copy_strategy_from_env builds from an empty
\* environment.  copy_size is a percentage under PERCENTAGE and ADAPTIVE and
\* an amount in dollars under FIXED; tiered multipliers are not configured.
DefaultConfig ==
    [ strategy |-> "PERCENTAGE", copy_size |-> copy_size,
      max_order_size_usd |-> max_order_size_usd,
      min_order_size_usd |-> min_order_size_usd,
      max_position_size_usd |-> << >>,
      adaptive_min_percent |-> << >>, adaptive_max_percent |-> << >>,
      adaptive_threshold |-> << >>, tiered_multipliers |-> << >>,
      trade_multiplier |-> << >> ]

\* The percentages of the adaptive policy are carried as binary floating
\* point numbers with MantissaBits significant bits, in units of one per
\* cent: a value below 2^MantissaBits is exact, a larger one is a multiple of
\* the quantum of its binade
RECURSIVE Quantum(_)
Quantum(x) == IF x < 2^MantissaBits THEN 1 ELSE 2 * Quantum(x \div 2)

\* round to nearest, ties to even, of the multiples of q around x >= 0
RoundTo(x, q) ==
    LET lo == (x \div q) * q
        r  == x - lo
    IN  IF 2 * r > q \/ (2 * r = q /\ (lo \div q) % 2 = 1) THEN lo + q ELSE lo

\* the floating point number nearest to the integer x
fl(x) ==
    LET a == IF x < 0 THEN -x ELSE x
        v == RoundTo(a, Quantum(a))
    IN  IF x < 0 THEN -v ELSE v

\* the floating point number nearest to n / d, d > 0
fl_div(n, d) ==
    LET a == IF n < 0 THEN -n ELSE n
        v == RoundTo(a, d * Quantum(a \div d)) \div d
    IN  IF n < 0 THEN -v ELSE v

\* lerp(a, b, t) = a + (b - a) * t with t = t_num / t_den in [0, 1]; each of
\* the three operations rounds
lerp(a, b, t_num, t_den) == fl(a + fl_div(fl(b - a) * t_num, t_den))

\* calculate_adaptive_percent
calculate_adaptive_percent(config, trader_order_size) ==
    LET min_pct   == unwrap_or(config.adaptive_min_percent, config.copy_size)
        max_pct   == unwrap_or(config.adaptive_max_percent, config.copy_size)
        threshold == unwrap_or(config.adaptive_threshold, USD(500))
    IN  IF trader_order_size >= threshold
        THEN lerp(config.copy_size, min_pct,
                  Min(trader_order_size - threshold, threshold), threshold)
        ELSE lerp(max_pct, config.copy_size, trader_order_size, threshold)

\* get_trade_multiplier without tiers: the flat TRADE_MULTIPLIER, or 1.0
\* f64 NaN, which compares with nothing
NaN == 0 - 1

\* the comparisons of f64: every comparison with a NaN is false
f64_lt(a, b) == a # NaN /\ b # NaN /\ a < b
f64_le(a, b) == a # NaN /\ b # NaN /\ a <= b
f64_gt(a, b) == a # NaN /\ b # NaN /\ a > b
f64_ge(a, b) == a # NaN /\ b # NaN /\ a >= b

\* lines 76-83: the test of one tier in the loop of get_trade_multiplier
tier_matches(tier, trader_order_size) ==
    /\ f64_ge(trader_order_size, tier.min)
    /\ (tier.max = << >> \/ f64_lt(trader_order_size, tier.max[1]))

RECURSIVE first_matching_tier(_, _)
first_matching_tier(tiers, trader_order_size) ==
    IF tiers = << >> THEN << >>
    ELSE IF tier_matches(Head(tiers), trader_order_size) THEN << Head(tiers) >>
    ELSE first_matching_tier(Tail(tiers), trader_order_size)

\* get_trade_multiplier: the first tier that holds the size, the last tier
\* when none does, the flat multiplier without tiers
get_trade_multiplier(config, trader_order_size) ==
    LET tiers == unwrap_or(config.tiered_multipliers, << >>)
        found == first_matching_tier(tiers, trader_order_size)
    IN  IF tiers # << >>
        THEN IF found # << >> THEN found[1].multiplier ELSE tiers[Len(tiers)].multiplier
        ELSE unwrap_or(config.trade_multiplier, 1)

\* parse_tiered_multipliers 199-233 on one part whose numbers have been
\* parsed: the checks of the bounds (str::parse::<f64> accepts "NaN")
tier_part_ok(part) ==
    /\ ~f64_lt(part.multiplier, 0)
    /\ ~f64_lt(part.min, 0)
    /\ (part.max # << >> => ~f64_le(part.max[1], part.min))

\* slice::sort_by on a short list with line 240's comparator,
\* partial_cmp(..).unwrap_or(Equal): a stable insertion from the left, an
\* element moving past those it is Less than
RECURSIVE insert_tier(_, _)
insert_tier(sorted, tier) ==
    IF sorted = << >> THEN << tier >>
    ELSE IF f64_lt(tier.min, sorted[Len(sorted)].min)
    THEN Append(insert_tier(SubSeq(sorted, 1, Len(sorted) - 1), tier), sorted[Len(sorted)])
    ELSE Append(sorted, tier)

RECURSIVE sort_tiers(_)
sort_tiers(tiers) ==
    IF tiers = << >> THEN << >>
    ELSE insert_tier(sort_tiers(SubSeq(tiers, 1, Len(tiers) - 1)), tiers[Len(tiers)])

\* lines 241-251: the checks on the neighbours of the sorted list
tiers_in_order(tiers) ==
    \A i \in 1..(Len(tiers) - 1) :
        /\ tiers[i].max # << >>
        /\ ~f64_gt(tiers[i].max[1], tiers[i + 1].min)

\* parse_tiered_multipliers on the parts of its input
parse_tiered_multipliers(parts) ==
    LET tiers == sort_tiers(parts) IN
    IF (\A i \in DOMAIN parts : tier_part_ok(parts[i])) /\ tiers_in_order(tiers)
    THEN [ok |-> TRUE, tiers |-> tiers]
    ELSE [ok |-> FALSE, tiers |-> << >>]

\* a sizer that always takes what the balance affords
calculate_order_size_affordable(config, trader_order_size, available_balance, current_position_size) ==
    [ base_amount        |-> (trader_order_size * config.copy_size) \div 100,
      final_amount       |-> (available_balance * 99) \div 100,
      capped_by_max      |-> FALSE,
      reduced_by_balance |-> TRUE,
      below_minimum      |-> FALSE ]

\* calculate_order_size
calculate_order_size(config, trader_order_size, available_balance, current_position_size) ==
    LET base_amount ==
            IF config.strategy = "PERCENTAGE"
            THEN (trader_order_size * config.copy_size) \div 100
            ELSE IF config.strategy = "FIXED" THEN USD(config.copy_size)
            ELSE (trader_order_size * calculate_adaptive_percent(config, trader_order_size))
                     \div 100
        multiplied     == base_amount * get_trade_multiplier(config, trader_order_size)
        capped         == Min(multiplied, config.max_order_size_usd)
        max_pos        == unwrap_or(config.max_position_size_usd, 0)
        allowed        == Max(max_pos - current_position_size, 0)
        fitted         == IF config.max_position_size_usd # << >>
                             /\ current_position_size + capped > max_pos
                          THEN (IF allowed < config.min_order_size_usd THEN 0 ELSE allowed)
                          ELSE capped
        max_affordable == (available_balance * 99) \div 100
        reduced        == Min(fitted, max_affordable)
        below_minimum  == reduced < config.min_order_size_usd
    IN  [ base_amount        |-> base_amount,
          final_amount       |-> IF below_minimum THEN config.min_order_size_usd ELSE reduced,
          capped_by_max      |-> multiplied > config.max_order_size_usd,
          reduced_by_balance |-> fitted > max_affordable,
          below_minimum      |-> below_minimum ]

\* Messages an order response can carry in error_msg ("" is success)
ErrorMessages == {"", "rate limited", "not enough balance", "Allowance exceeded"}

\* str::to_lowercase on the messages of the model
to_lowercase(msg) == IF msg = "Allowance exceeded" THEN "allowance exceeded" ELSE msg

\* str::contains on the texts and phrases of the model (case sensitive)
contains(text, phrase) ==
    << text, phrase >> \in { << "not enough balance", "not enough balance" >>,
                             << "allowance exceeded", "allowance" >> }

\* the same test without the lowercasing
is_funds_error_case_sensitive(msg) ==
    contains(msg, "not enough balance") \/ contains(msg, "allowance")

\* is_insufficient_balance_or_allowance_error
is_insufficient_balance_or_allowance_error(msg) ==
    LET lower == to_lowercase(msg)
    IN  contains(lower, "not enough balance") \/ contains(lower, "allowance")

\* The best level of the book side a strategy reads: price and size; size 0
\* is an empty side
BookLevels ==
    { [price |-> 0,     size |-> 0],
      [price |-> 50000, size |-> 300],
      [price |-> 400,   size |-> 150] }

\* The vault's position on the market (0: none), the leader's position after
\* the trade (0: none) and the vault's USDC balance
MyPositions == {0, 400}
UserPositions == {0, 4000}
Balances == {0, 5000000}

\* no call of the sizer on its own has been made
NoCalc == [called |-> FALSE]

\* no child order has failed yet
NoFailures == [id |-> 0, n |-> 0, posted |-> 0, spent |-> 0]

\* parse_tiered_multipliers has not been called
NoTierCall == [called |-> FALSE]

\* fetch_data has not been called.  outcomes[k] is what attempt k met, and
\* waits[k] the milliseconds slept between attempt k and attempt k + 1
NoFetch == [pc |-> "idle", attempt |-> 0, retry_limit |-> 0, result |-> "none",
            outcomes |-> << >>, waits |-> << >>]

NoCopyOrder == [strategy |-> "none", tokens |-> 0, price |-> 0, usdc |-> 0, expires_in |-> 0]

NoStrategy ==
    [ kind |-> "none", id |-> 0, remaining |-> 0, available_balance |-> 0,
      retry |-> 0, abort_due_to_funds |-> FALSE, total_tokens |-> 0,
      total_bought_tokens |-> 0, previous_buys |-> << >>, funds_message |-> FALSE,
      final_amount |-> 0, current_position_value |-> 0, my_position |-> 0 ]

\* what a strategy step hands back: the store, the locals, the order it posted
\* and got a response to (if any) and where the strategy goes: "loop" | "finish" | "ok" | "err"
Step(rows, st, order, next) == [rows |-> rows, st |-> st, order |-> order, next |-> next]

\* db.update_activity(.., {"bot": true}) followed by `then`, or Err when the
\* store fails
WriteBotThen(rows, st, db_ok, then) ==
    IF db_ok THEN Step(update_activity(rows, st.id, [bot |-> TRUE]), st, NoCopyOrder, then)
    ELSE Step(rows, st, NoCopyOrder, "err")

\* execute_buy_strategy up to the loop.  current_position_value is read by
\* the sizer only when a position limit is configured and is kept only then.
buy_start(rows, id, trade_usdc, my_balance, current_position_value, db_ok) ==
    LET config == copy_strategy_config
        order_calc_ == calculate_order_size(config, trade_usdc, my_balance,
                                            current_position_value)
        st == [NoStrategy EXCEPT !.kind = "buy", !.id = id,
                                 !.remaining = order_calc_.final_amount,
                                 !.available_balance = my_balance,
                                 !.final_amount = order_calc_.final_amount,
                                 !.current_position_value =
                                     IF config.max_position_size_usd = << >> THEN 0
                                     ELSE current_position_value]
    IN  IF order_calc_.final_amount < config.min_order_size_usd
        THEN WriteBotThen(rows, st, db_ok, "ok")
        ELSE Step(rows, st, NoCopyOrder, "loop")

\* Db::find_all_buy_activities_for_asset: the processed BUY rows with tracked
\* tokens, as (id, my_bought_size) pairs
RECURSIVE find_all_buy_activities_from(_, _)
find_all_buy_activities_from(rows, i) ==
    IF i > Len(rows) THEN << >>
    ELSE (IF rows[i].side = "BUY" /\ rows[i].bot /\ rows[i].my_bought_size > 0
          THEN << [id |-> i, my_bought_size |-> rows[i].my_bought_size] >>
          ELSE << >>) \o find_all_buy_activities_from(rows, i + 1)

RECURSIVE SumBought(_)
SumBought(buys) ==
    IF buys = << >> THEN 0 ELSE Head(buys).my_bought_size + SumBought(Tail(buys))

\* execute_sell_strategy without the cap of lines 651-660
sell_start_uncapped(rows, id, trade_size, trade_usdc, my_position, user_position, db_ok) ==
    LET previous_buys == find_all_buy_activities_from(rows, 1)
        total_bought_tokens == SumBought(previous_buys)
        base_sell_size ==
            IF total_bought_tokens > 0
            THEN (total_bought_tokens * trade_size) \div (user_position + trade_size)
            ELSE (my_position * trade_size) \div (user_position + trade_size)
        calculated == IF user_position = 0 THEN my_position
                      ELSE base_sell_size * get_trade_multiplier(copy_strategy_config, trade_usdc)
        st == [NoStrategy EXCEPT !.kind = "sell", !.id = id,
                                 !.my_position = my_position,
                                 !.remaining = calculated,
                                 !.total_bought_tokens = total_bought_tokens,
                                 !.previous_buys = previous_buys]
        none == [NoStrategy EXCEPT !.kind = "sell", !.id = id]
    IN  IF my_position = 0 THEN WriteBotThen(rows, none, db_ok, "ok")
        ELSE IF ~db_ok THEN Step(rows, none, NoCopyOrder, "err")
        ELSE IF calculated < MIN_ORDER_SIZE_TOKENS THEN WriteBotThen(rows, st, TRUE, "ok")
        ELSE Step(rows, st, NoCopyOrder, "loop")

\* execute_sell_strategy up to the loop
sell_start(rows, id, trade_size, trade_usdc, my_position, user_position, db_ok) ==
    LET previous_buys == find_all_buy_activities_from(rows, 1)
        total_bought_tokens == SumBought(previous_buys)
        base_sell_size ==
            IF total_bought_tokens > 0
            THEN (total_bought_tokens * trade_size) \div (user_position + trade_size)
            ELSE (my_position * trade_size) \div (user_position + trade_size)
        calculated == IF user_position = 0 THEN my_position
                      ELSE base_sell_size * get_trade_multiplier(copy_strategy_config, trade_usdc)
        st == [NoStrategy EXCEPT !.kind = "sell", !.id = id,
                                 !.my_position = my_position,
                                 !.remaining = Min(calculated, my_position),
                                 !.total_bought_tokens = total_bought_tokens,
                                 !.previous_buys = previous_buys]
        none == [NoStrategy EXCEPT !.kind = "sell", !.id = id]
    IN  IF my_position = 0 THEN WriteBotThen(rows, none, db_ok, "ok")
        ELSE IF ~db_ok THEN Step(rows, none, NoCopyOrder, "err")
        ELSE IF calculated < MIN_ORDER_SIZE_TOKENS THEN WriteBotThen(rows, st, TRUE, "ok")
        ELSE Step(rows, st, NoCopyOrder, "loop")

\* execute_merge_strategy up to the loop
merge_start(rows, id, my_position, db_ok) ==
    LET st == [NoStrategy EXCEPT !.kind = "merge", !.id = id, !.remaining = my_position]
    IN  IF my_position = 0 \/ my_position < MIN_ORDER_SIZE_TOKENS
        THEN WriteBotThen(rows, st, db_ok, "ok")
        ELSE Step(rows, st, NoCopyOrder, "loop")

\* the best level of a book without levels
NoLevel == [price |-> 0, size |-> 0]

\* the response to a posted child order, as the three strategies treat it:
\* `gain` is added to the bought or sold total, `spent` taken off remaining
after_response(st, msg, gain, spent) ==
    LET seen == [st EXCEPT !.funds_message =
                    @ \/ (msg \in {"not enough balance", "Allowance exceeded"})]
    IN  IF msg = ""
        THEN << [seen EXCEPT !.retry = 0, !.total_tokens = @ + gain,
                             !.remaining = @ - spent,
                             !.available_balance =
                                 IF st.kind = "buy" THEN @ - spent ELSE @], "loop" >>
        ELSE IF is_insufficient_balance_or_allowance_error(msg)
        THEN << [seen EXCEPT !.abort_due_to_funds = TRUE], "finish" >>
        ELSE << [seen EXCEPT !.retry = @ + 1], "loop" >>

\* one pass of the loop of execute_buy_strategy; level is the best ask
buy_iteration(rows, st, level, msg, db_ok) ==
    LET order_size == Min(st.remaining, (level.size * level.price) \div 100)
        doc   == IF st.total_tokens > 0
                 THEN [bot |-> TRUE, my_bought_size |-> st.total_tokens]
                 ELSE [bot |-> TRUE]
        done  == IF db_ok THEN Step(update_activity(rows, st.id, doc), st, NoCopyOrder, "finish")
                 ELSE Step(rows, st, NoCopyOrder, "err")
        order == [strategy |-> "buy", tokens |-> (order_size * 100) \div level.price,
                  price |-> level.price, usdc |-> format_2dp(order_size),
                  expires_in |-> ORDER_EXPIRY_SECS]
    IN  IF level = NoLevel THEN WriteBotThen(rows, st, db_ok, "finish")
        ELSE IF st.remaining < MIN_ORDER_SIZE_USD THEN done
        ELSE IF order_size < MIN_ORDER_SIZE_USD THEN done
        ELSE IF st.available_balance < order_size
        THEN Step(rows, [st EXCEPT !.abort_due_to_funds = TRUE], NoCopyOrder, "finish")
        ELSE IF msg = "err" THEN Step(rows, st, NoCopyOrder, "err")
        ELSE LET r == after_response(st, msg, order.tokens, order_size)
             IN  Step(rows, r[1], order, r[2])

\* the limit FOK sell order of the sell and merge strategies; sizes are whole
\* hundredths of a token, which {:.4} prints exactly
sell_order(kind, sell_amount, price) ==
    [strategy |-> kind, tokens |-> sell_amount, price |-> format_2dp(price),
     usdc |-> floor_usdc(sell_amount, format_2dp(price)),
     expires_in |-> ORDER_EXPIRY_SECS]

\* one pass of the loop of execute_sell_strategy; level is the best bid
sell_iteration(rows, st, level, msg, db_ok) ==
    LET sell_amount == Min(st.remaining, level.size)
        order == sell_order("sell", sell_amount, level.price)
    IN  IF level = NoLevel THEN WriteBotThen(rows, st, db_ok, "finish")
        ELSE IF st.remaining < MIN_ORDER_SIZE_TOKENS THEN WriteBotThen(rows, st, db_ok, "finish")
        ELSE IF sell_amount < MIN_ORDER_SIZE_TOKENS THEN WriteBotThen(rows, st, db_ok, "finish")
        ELSE IF msg = "err" THEN Step(rows, st, NoCopyOrder, "err")
        ELSE LET r == after_response(st, msg, sell_amount, sell_amount)
             IN  Step(rows, r[1], order, r[2])

\* one pass of the loop of execute_merge_strategy; level is the best bid
merge_iteration(rows, st, level, msg, db_ok) ==
    LET sell_amount == Min(st.remaining, level.size)
        order == sell_order("merge", sell_amount, level.price)
    IN  IF level = NoLevel THEN WriteBotThen(rows, st, db_ok, "finish")
        ELSE IF msg = "err" THEN Step(rows, st, NoCopyOrder, "err")
        ELSE LET r == after_response(st, msg, sell_amount, sell_amount)
             IN  Step(rows, r[1], order, r[2])

\* the update document of the final write of a strategy
final_doc(st) ==
    LET base == IF st.abort_due_to_funds
                THEN [bot |-> TRUE, bot_executed_time |-> retry_limit]
                ELSE IF st.retry >= retry_limit
                THEN [bot |-> TRUE, bot_executed_time |-> st.retry]
                ELSE [bot |-> TRUE]
    IN  IF st.kind = "buy" /\ st.total_tokens > 0
        THEN [f \in DOMAIN base \cup {"my_bought_size"} |->
                 IF f = "my_bought_size" THEN st.total_tokens ELSE base[f]]
        ELSE base

\* Db::update_many_activities(.., {"myBoughtSize": 0.0})
RECURSIVE update_many_activities(_, _)
update_many_activities(rows, i) ==
    IF i > Len(rows) THEN rows
    ELSE update_many_activities(
            IF rows[i].side = "BUY" /\ rows[i].bot /\ rows[i].my_bought_size > 0
            THEN update_activity(rows, i, [my_bought_size |-> 0]) ELSE rows,
            i + 1)

\* the first n writes of the loop over previous_buys (post_order.rs 819-829)
RECURSIVE scale_previous_buys(_, _, _, _)
scale_previous_buys(rows, buys, st, n) ==
    IF n = 0 \/ buys = << >> THEN rows
    ELSE scale_previous_buys(
            update_activity(rows, Head(buys).id,
                [my_bought_size |->
                    (Head(buys).my_bought_size * (st.total_bought_tokens - st.total_tokens))
                        \div st.total_bought_tokens]),
            Tail(buys), st, n - 1)

\* the number of store writes the ledger update of the sell strategy makes
ledger_writes(st) ==
    IF st.kind = "sell" /\ st.total_tokens > 0 /\ st.total_bought_tokens > 0
    THEN IF st.total_tokens * 100 >= 99 * st.total_bought_tokens
         THEN 1 ELSE Len(st.previous_buys)
    ELSE 0

\* the end of a strategy after its loop (ledger update, final write), the
\* store failing after `done` writes; done = ledger_writes + 1: no failure
strategy_finish(rows, st, done) ==
    LET n == ledger_writes(st)
        cleared == st.total_tokens * 100 >= 99 * st.total_bought_tokens
        ledger == IF n = 0 THEN rows
                  ELSE IF cleared
                  THEN (IF done >= 1 THEN update_many_activities(rows, 1) ELSE rows)
                  ELSE scale_previous_buys(rows, st.previous_buys, st, Min(done, n))
    IN  IF done > n
        THEN Step(update_activity(ledger, st.id, final_doc(st)), st, NoCopyOrder, "ok")
        ELSE Step(ledger, st, NoCopyOrder, "err")

----------------------------------------------------------------------------
\* COPY-TRADING BOT: the executor loop

Range(s) == {s[i] : i \in DOMAIN s}

\* the same filter without the in-flight marker
is_unprocessed_ignoring_marker(row) == ~row.bot

\* the filter of Db::find_unprocessed_trades on one row (every row of the
\* model has type TRADE)
is_unprocessed(row) == ~row.bot /\ row.bot_executed_time = 0

\* Db::find_unprocessed_trades: the ids of the matching rows, in _id order
RECURSIVE find_unprocessed_trades(_, _)
find_unprocessed_trades(rows, i) ==
    IF i > Len(rows) THEN << >>
    ELSE (IF is_unprocessed(rows[i]) THEN << i >> ELSE << >>)
         \o find_unprocessed_trades(rows, i + 1)

\* The aggregation buffer.  The model has one leader, one market and buffers
\* only BUY trades, so there is one aggregation key and at most one group.
EmptyBuffer == [trades |-> << >>, total_usdc_size |-> 0]

\* add_to_aggregation_buffer
add_to_aggregation_buffer(buffer, id, usdc) ==
    [trades |-> Append(buffer.trades, id), total_usdc_size |-> buffer.total_usdc_size + usdc]

\* the first n of the update_activity calls of a loop over ids
RECURSIVE update_first(_, _, _, _)
update_first(rows, ids, doc, n) ==
    IF n = 0 \/ ids = << >> THEN rows
    ELSE update_first(update_activity(rows, Head(ids), doc), Tail(ids), doc, n - 1)

\* The executor: its position, the trades of this poll not yet routed
\* (aggregation mode), the slice do_trading still has to walk, the rows of
\* the trade being executed (one row, or the constituents of a group), whether
\* do_aggregated_trading is the caller, the group's total_usdc_size and the
\* Result the strategy returned
IdleExecutor ==
    [ pc |-> "poll", trades |-> << >>, slice |-> << >>, ids |-> << >>,
      agg |-> FALSE, total |-> 0, result |-> "ok" ]

\* The state when main has started the monitor and the executor: the stream
\* is connecting or already subscribed
CopyInit ==
    /\ trade_aggregation_enabled \in BOOLEAN
    /\ activities \in InitialStores
    /\ monitor_last = "none"
    /\ executor = IdleExecutor
    /\ aggregation_buffer = EmptyBuffer
    /\ strategy = NoStrategy
    /\ dispatch_count = [i \in 1..MaxActivities |-> 0]
    /\ last_order = NoCopyOrder
    /\ main_pc = "running"
    /\ rtds_conn \in {"connecting", "open"}
    /\ reconnect_attempts = 0
    /\ rtds_delay = 0
    /\ copy_strategy_config = DefaultConfig
    /\ order_calc = NoCalc
    /\ failed_orders = NoFailures
    /\ fetch = NoFetch
    /\ tier_call = NoTierCall

\* where run_trade_executor goes on after a do_trading call
AfterDoTrading == IF trade_aggregation_enabled THEN "route" ELSE "poll"

\* run_trade_executor 473-480, 581-592: read_temp_trades; without aggregation
\* do_trading is called on all the trades read.  (A failing read changes
\* nothing and is a stuttering step.)
ReadTempTrades ==
    LET trades == find_unprocessed_trades(activities, 1) IN
    /\ executor.pc = "poll"
    /\ main_pc = "running"
    /\ Len(aggregation_buffer.trades) < MaxBuffered
    /\ executor' = IF trade_aggregation_enabled
                   THEN [executor EXCEPT !.pc = "route", !.trades = trades]
                   ELSE IF trades = << >> THEN executor
                   ELSE [executor EXCEPT !.pc = "do_trading", !.slice = trades]
    /\ UNCHANGED << trade_aggregation_enabled, activities, monitor_last,
                    aggregation_buffer, strategy, dispatch_count, last_order >>
    /\ UNCHANGED << arb_vars, sys_vars >>

\* run_trade_executor 492-527: a small BUY goes to the buffer, any other trade
\* to do_trading on its own
RouteTrade ==
    /\ executor.pc = "route"
    /\ IF executor.trades = << >>
       THEN /\ executor' = [executor EXCEPT !.pc = "get_ready"]
            /\ UNCHANGED aggregation_buffer
       ELSE LET id  == Head(executor.trades)
                row == activities[id]
            IN  IF row.side = "BUY" /\ row.usdc_size < TRADE_AGGREGATION_MIN_TOTAL_USD
                THEN /\ aggregation_buffer' =
                            add_to_aggregation_buffer(aggregation_buffer, id, row.usdc_size)
                     /\ executor' = [executor EXCEPT !.trades = Tail(@)]
                ELSE /\ executor' = [executor EXCEPT !.trades = Tail(@),
                                                     !.slice = << id >>,
                                                     !.pc = "do_trading"]
                     /\ UNCHANGED aggregation_buffer
    /\ UNCHANGED << trade_aggregation_enabled, activities, monitor_last,
                    strategy, dispatch_count, last_order >>
    /\ UNCHANGED << arb_vars, sys_vars >>

\* do_trading 191-200: the next trade of the slice is marked in flight; a store
\* error ends do_trading
DoTradingMark(db_ok) ==
    LET id == Head(executor.slice) IN
    /\ executor.pc = "do_trading"
    /\ IF db_ok
       THEN /\ activities' = update_activity(activities, id, [bot_executed_time |-> 1])
            /\ executor' = [executor EXCEPT !.pc = "fetch", !.slice = Tail(@),
                                            !.ids = << id >>, !.agg = FALSE]
       ELSE /\ executor' = [executor EXCEPT !.pc = AfterDoTrading, !.slice = << >>]
            /\ UNCHANGED activities
    /\ UNCHANGED << trade_aggregation_enabled, monitor_last, aggregation_buffer,
                    strategy, dispatch_count, last_order >>
    /\ UNCHANGED << arb_vars, sys_vars >>

\* The positions and the balance are fetched and post_order is called with
\* `condition`; the strategy runs up to its loop.  net_ok = FALSE: fetch_data
\* returns an error.
PostOrder(condition, net_ok, my_position, user_position, my_balance, db_ok) ==
    LET id    == executor.ids[1]
        avg_price == 50000
        trade == activities[id]
        usdc  == IF executor.agg THEN executor.total ELSE trade.usdc_size
        start == IF condition = "buy"
                 THEN buy_start(activities, id, usdc, my_balance,
                                 usdc_size(my_position, avg_price), db_ok)
                 ELSE IF condition = "sell"
                 THEN sell_start(activities, id, trade.size, usdc,
                                 my_position, user_position, db_ok)
                 ELSE merge_start(activities, id, my_position, db_ok)
    IN
    /\ executor.pc = "fetch"
    /\ IF ~net_ok
       THEN /\ executor' = [executor EXCEPT !.pc = "returned", !.result = "err"]
            /\ UNCHANGED << activities, strategy, dispatch_count >>
       ELSE /\ dispatch_count' = [i \in DOMAIN dispatch_count |->
                   IF i \in Range(executor.ids) THEN dispatch_count[i] + 1
                   ELSE dispatch_count[i]]
            /\ activities' = start.rows
            /\ strategy' = start.st
            /\ executor' = [executor EXCEPT
                   !.pc = IF start.next = "loop" THEN "strategy" ELSE "returned",
                   !.result = IF start.next = "err" THEN "err" ELSE "ok"]
    /\ UNCHANGED << trade_aggregation_enabled, monitor_last, aggregation_buffer,
                    last_order >>
    /\ UNCHANGED << arb_vars, sys_vars >>

\* do_trading 218-304 and do_aggregated_trading 348-432: the condition is buy
\* for a BUY and sell otherwise
DoTradingPost(net_ok, my_position, user_position, my_balance, db_ok) ==
    /\ executor.pc = "fetch"
    /\ PostOrder(IF executor.agg \/ activities[executor.ids[1]].side = "BUY"
                 THEN "buy" ELSE "sell",
                 net_ok, my_position, user_position, my_balance, db_ok)

\* post_order 82-84: the merge arm.  No caller in the repository passes
\* "merge"; the arm is entered here in place of the sell arm.
MergePost(net_ok, my_position, db_ok) ==
    /\ executor.pc = "fetch"
    /\ ~executor.agg
    /\ activities[executor.ids[1]].side = "SELL"
    /\ PostOrder("merge", net_ok, my_position, 0, 0, db_ok)

\* The loop of the running strategy: its condition and one pass.  level is
\* the best level of the fetched book (net_ok = FALSE: the fetch fails), msg
\* the error_msg of the response ("err": building, signing or posting the
\* order returns an error).
StrategyPass(level, msg, net_ok, db_ok) ==
    LET st   == strategy
        step == IF ~(st.remaining > 0 /\ st.retry < retry_limit)
                THEN Step(activities, st, NoCopyOrder, "finish")
                ELSE IF ~net_ok THEN Step(activities, st, NoCopyOrder, "err")
                ELSE IF st.kind = "buy" THEN buy_iteration(activities, st, level, msg, db_ok)
                ELSE IF st.kind = "sell" THEN sell_iteration(activities, st, level, msg, db_ok)
                ELSE merge_iteration(activities, st, level, msg, db_ok)
    IN
    /\ executor.pc = "strategy"
    /\ activities' = step.rows
    /\ strategy' = step.st
    /\ last_order' = step.order
    /\ executor' = [executor EXCEPT
           !.pc = IF step.next = "loop" THEN "strategy"
                  ELSE IF step.next = "finish" THEN "finish" ELSE "returned",
           !.result = IF step.next = "err" THEN "err" ELSE "ok"]
    /\ UNCHANGED << trade_aggregation_enabled, monitor_last, aggregation_buffer,
                    dispatch_count >>
    /\ UNCHANGED arb_vars

StrategyLoop(level, msg, net_ok, db_ok) ==
    /\ StrategyPass(level, msg, net_ok, db_ok)
    /\ UNCHANGED sys_vars

\* The same pass with the history of the transient errors kept: retry goes up
\* by one exactly when the response carried a transient error
StrategyLoopCounted(level, msg, net_ok, db_ok) ==
    /\ StrategyPass(level, msg, net_ok, db_ok)
    /\ failed_orders' =
           IF strategy'.retry # strategy.retry + 1 THEN failed_orders
           ELSE IF failed_orders.id = strategy.id
           THEN [failed_orders EXCEPT !.n = @ + 1]
           ELSE [id |-> strategy.id, n |-> 1, posted |-> 0, spent |-> 0]
    /\ UNCHANGED << main_pc, rtds_conn, reconnect_attempts, rtds_delay,
                    copy_strategy_config, order_calc, fetch, tier_call >>

\* The same pass with the child orders of the parent counted: a pass that
\* reaches the post hands one order to the exchange, and an order answered
\* without error_msg was filled for the USDC amount it carried
StrategyLoopPosted(level, msg, net_ok, db_ok) ==
    /\ failed_orders.posted < MaxChildOrders
    /\ StrategyPass(level, msg, net_ok, db_ok)
    /\ failed_orders' =
           LET filled == IF msg = "" THEN last_order'.usdc ELSE 0 IN
           IF last_order' = NoCopyOrder THEN failed_orders
           ELSE IF failed_orders.id = strategy.id
           THEN [failed_orders EXCEPT !.posted = @ + 1, !.spent = @ + filled]
           ELSE [id |-> strategy.id, n |-> 0, posted |-> 1, spent |-> filled]
    /\ UNCHANGED << main_pc, rtds_conn, reconnect_attempts, rtds_delay,
                    copy_strategy_config, order_calc, fetch, tier_call >>

\* The end of the strategy: the ledger update of the sell strategy and the
\* final write, the store failing after `done` writes
StrategyFinish(done) ==
    LET step == strategy_finish(activities, strategy, done) IN
    /\ executor.pc = "finish"
    /\ done <= ledger_writes(strategy) + 1
    /\ activities' = step.rows
    /\ executor' = [executor EXCEPT !.pc = "returned",
                                    !.result = IF step.next = "err" THEN "err" ELSE "ok"]
    /\ UNCHANGED << trade_aggregation_enabled, monitor_last, aggregation_buffer,
                    strategy, dispatch_count, last_order >>
    /\ UNCHANGED << arb_vars, sys_vars >>

\* post_order has returned: do_trading goes on with the next trade of its
\* slice on Ok and returns on Err; do_aggregated_trading has one group
Returned ==
    LET continue == executor.result = "ok" /\ ~executor.agg /\ executor.slice # << >> IN
    /\ executor.pc = "returned"
    /\ strategy' = NoStrategy
    /\ last_order' = NoCopyOrder
    /\ executor' = [executor EXCEPT
           !.pc = IF continue THEN "do_trading"
                  ELSE IF executor.agg THEN "poll" ELSE AfterDoTrading,
           !.slice = IF continue THEN @ ELSE << >>,
           !.ids = << >>, !.agg = FALSE, !.total = 0, !.result = "ok"]
    /\ UNCHANGED << trade_aggregation_enabled, activities, monitor_last,
                    aggregation_buffer, dispatch_count >>
    /\ UNCHANGED << arb_vars, sys_vars >>

\* get_ready_aggregated_trades: a group whose window has elapsed is handed on
\* when its total reaches the minimum; otherwise its rows are written
\* bot = true, the store failing after `done` writes, and the group is removed
\* unless a write failed
GetReady(elapsed, done) ==
    LET group == aggregation_buffer
        n     == Len(group.trades)
    IN
    /\ executor.pc = "get_ready"
    /\ done <= n
    /\ IF group.trades = << >> \/ ~elapsed
       THEN /\ executor' = [executor EXCEPT !.pc = "poll"]
            /\ UNCHANGED << activities, aggregation_buffer >>
       ELSE IF group.total_usdc_size >= TRADE_AGGREGATION_MIN_TOTAL_USD
       THEN /\ executor' = [executor EXCEPT !.pc = "agg_trading", !.ids = group.trades,
                                            !.total = group.total_usdc_size, !.agg = TRUE]
            /\ aggregation_buffer' = EmptyBuffer
            /\ UNCHANGED activities
       ELSE /\ activities' = update_first(activities, group.trades, [bot |-> TRUE], done)
            /\ aggregation_buffer' = IF done = n THEN EmptyBuffer ELSE aggregation_buffer
            /\ executor' = [executor EXCEPT !.pc = "poll"]
    /\ UNCHANGED << trade_aggregation_enabled, monitor_last, strategy,
                    dispatch_count, last_order >>
    /\ UNCHANGED << arb_vars, sys_vars >>

\* do_aggregated_trading 337-346: every constituent is marked in flight, the
\* store failing after `done` writes
AggregatedMark(done) ==
    LET n == Len(executor.ids) IN
    /\ executor.pc = "agg_trading"
    /\ done <= n
    /\ activities' = update_first(activities, executor.ids, [bot_executed_time |-> 1], done)
    /\ executor' = IF done = n THEN [executor EXCEPT !.pc = "fetch"]
                   ELSE [executor EXCEPT !.pc = "poll", !.ids = << >>,
                                         !.agg = FALSE, !.total = 0]
    /\ UNCHANGED << trade_aggregation_enabled, monitor_last, aggregation_buffer,
                    strategy, dispatch_count, last_order >>
    /\ UNCHANGED << arb_vars, sys_vars >>

PostOutcomes == ErrorMessages \cup {"err"}

\* the monitor beside the executor: payloads that carry a hash, on a store
\* that answers (the other payloads leave the store as it is)
CopyMonitorNext ==
    \E tx \in TxHashes \ {""}, shape \in TradeShapes :
        ProcessTradeActivity(tx, shape, FALSE, TRUE)

ExecutorNext ==
    \/ ReadTempTrades
    \/ RouteTrade
    \/ \E db_ok \in BOOLEAN : DoTradingMark(db_ok)
    \/ \E net_ok \in BOOLEAN, my_position \in MyPositions, user_position \in UserPositions,
          my_balance \in Balances, db_ok \in BOOLEAN :
          DoTradingPost(net_ok, my_position, user_position, my_balance, db_ok)
    \/ \E level \in BookLevels, msg \in PostOutcomes, net_ok \in BOOLEAN, db_ok \in BOOLEAN :
          StrategyLoop(level, msg, net_ok, db_ok)
    \/ \E done \in 0..(ledger_writes(strategy) + 1) : StrategyFinish(done)
    \/ Returned
    \/ \E elapsed \in BOOLEAN, done \in 0..Len(aggregation_buffer.trades) :
          GetReady(elapsed, done)
    \/ \E done \in 0..Len(executor.ids) : AggregatedMark(done)

CopyNext == CopyMonitorNext \/ ExecutorNext

\* the monitor alone, with every payload and every store outcome
MonitorNext ==
    \/ \E tx \in TxHashes, shape \in TradeShapes, too_old \in BOOLEAN, db_ok \in BOOLEAN :
          ProcessTradeActivity(tx, shape, too_old, db_ok)
    \/ \E ok \in BOOLEAN : RtdsConnect(ok)
    \/ \E ok \in BOOLEAN : RtdsSubscribe(ok)
    \/ RtdsLost
    \/ RtdsBackoff
    \/ RtdsWake

MergeNext ==
    \E net_ok \in BOOLEAN, my_position \in MyPositions, db_ok \in BOOLEAN :
        MergePost(net_ok, my_position, db_ok)

----------------------------------------------------------------------------
\* COPY-TRADING BOT: start-up and shutdown (main)

\* Hashes of the rows an earlier run of the bot left in the store
HistoricalHashes == {"0xh1", "0xh2"}

\* A row an earlier run stored and did not finish: bot = false, not picked up
\* (0) or left in flight (1)
Unprocessed(tx, executed_time) ==
    [tx |-> tx, side |-> "BUY", size |-> 4000, usdc_size |-> 2000000,
     bot |-> FALSE, bot_executed_time |-> executed_time, my_bought_size |-> 0]

\* The stores of an earlier run the bot can be started on
StartupStores ==
    { << Unprocessed("0xh1", 0), ProcessedBuy("0xh2", 200) >>,
      << Unprocessed("0xh1", 1), ProcessedBuy("0xh2", 200) >> }

\* a start-up that leaves the store as it finds it
mark_historical_nothing(rows) == rows

\* Db::mark_historical_processed: update_many on {bot: false}
mark_historical_processed(rows) ==
    [i \in DOMAIN rows |->
        IF ~rows[i].bot
        THEN [rows[i] EXCEPT !.bot = TRUE, !.bot_executed_time = 999]
        ELSE rows[i]]

LifeRest == << trade_aggregation_enabled, monitor_last, aggregation_buffer,
               strategy, dispatch_count, last_order, reconnect_attempts, rtds_delay,
               sizer_vars >>

\* main, line 118: run_trade_monitor: init, the historical rows are marked,
\* connect_rtds is spawned.  An error of init or of the store ends main.
RunTradeMonitor(db_ok) ==
    /\ main_pc = "startup"
    /\ IF db_ok
       THEN /\ activities' = mark_historical_processed(activities)
            /\ rtds_conn' = "connecting"
            /\ main_pc' = "monitor_started"
       ELSE /\ main_pc' = "failed"
            /\ UNCHANGED << activities, rtds_conn >>
    /\ UNCHANGED << executor, LifeRest >>
    /\ UNCHANGED arb_vars

\* main, lines 122-129: the executor task is spawned; it creates its client
\* and enters its loop, or ends on the error
StartExecutor(client_ok) ==
    /\ main_pc = "monitor_started"
    /\ main_pc' = "running"
    /\ executor' = IF client_ok THEN IdleExecutor ELSE [IdleExecutor EXCEPT !.pc = "failed"]
    /\ UNCHANGED << activities, rtds_conn, LifeRest >>
    /\ UNCHANGED arb_vars

\* main, lines 132-141: Ctrl+C; stop_trade_monitor and stop_trade_executor
\* clear the RUNNING flags
CtrlC ==
    /\ main_pc = "running"
    /\ main_pc' = "stopping"
    /\ UNCHANGED << activities, rtds_conn, executor, LifeRest >>
    /\ UNCHANGED arb_vars

\* run_trade_executor, lines 471 and 602-604: the loop sees IS_RUNNING cleared
ExecutorStops ==
    /\ main_pc = "stopping"
    /\ executor.pc = "poll"
    /\ executor' = [executor EXCEPT !.pc = "stopped"]
    /\ UNCHANGED << main_pc, activities, rtds_conn, LifeRest >>
    /\ UNCHANGED arb_vars

\* main, lines 142-146: two seconds after the flags were cleared
\* executor_handle.abort() ends the executor task at the await where it is
\* suspended, and main returns
Abort ==
    /\ main_pc = "stopping"
    /\ main_pc' = "ended"
    /\ executor' = IF executor.pc \in {"stopped", "failed"} THEN executor
                   ELSE [executor EXCEPT !.pc = "aborted"]
    /\ UNCHANGED << activities, rtds_conn, LifeRest >>
    /\ UNCHANGED arb_vars

LifeNext ==
    \/ \E db_ok \in BOOLEAN : RunTradeMonitor(db_ok)
    \/ \E client_ok \in BOOLEAN : StartExecutor(client_ok)
    \/ RtdsConnect(TRUE)
    \/ RtdsSubscribe(TRUE)
    \/ CopyMonitorNext
    \/ ExecutorNext
    \/ CtrlC
    \/ ExecutorStops
    \/ Abort

----------------------------------------------------------------------------
\* SPECIFICATIONS

\* the arbitrage bot before its first book message, without a trading client
ArbIdle == ArbInit /\ clob_client = "none" /\ ws_conn = "connecting"

\* the copy-trading bot at start, on an empty store
CopyIdle ==
    CopyInit /\ ~trade_aggregation_enabled /\ activities = << >> /\ rtds_conn = "connecting"

\* the arbitrage bot
InitArb == ArbInit /\ CopyIdle

SpecArb == InitArb /\ [][ArbNext]_vars

\* The clock advances, monitor_market_loop polls end_date every second and
\* run() is a spawned task that is scheduled; what the exchange and the
\* network do (messages, disconnects) is under no fairness
SpecArbLive ==
    SpecArb /\ WF_vars(Tick) /\ WF_vars(Rollover)
            /\ WF_vars(\E ok \in BOOLEAN : WsConnect(ok)) /\ WF_vars(WsSleep)

\* the copy-trading bot, monitor and executor, on a stream that is subscribed
\* and stays connected
InitCopy == CopyInit /\ rtds_conn = "open" /\ ArbIdle

SpecCopy == InitCopy /\ [][CopyNext]_vars

\* the copy-trading bot with an executor loop that keeps running
SpecCopyLive == SpecCopy /\ WF_vars(ExecutorNext)

\* the activity monitor of the copy-trading bot: connect_rtds and the
\* payloads it receives
InitMonitor == CopyInit /\ rtds_conn = "connecting" /\ ArbIdle

SpecMonitor == InitMonitor /\ [][MonitorNext]_vars

\* the copy-trading bot from the start of main to its end
InitStartup ==
    /\ trade_aggregation_enabled \in BOOLEAN
    /\ activities \in StartupStores
    /\ monitor_last = "none"
    /\ executor = [IdleExecutor EXCEPT !.pc = "not_started"]
    /\ aggregation_buffer = EmptyBuffer
    /\ strategy = NoStrategy
    /\ dispatch_count = [i \in 1..MaxActivities |-> 0]
    /\ last_order = NoCopyOrder
    /\ main_pc = "startup"
    /\ rtds_conn = "not_started"
    /\ reconnect_attempts = 0
    /\ rtds_delay = 0
    /\ copy_strategy_config = DefaultConfig
    /\ order_calc = NoCalc
    /\ failed_orders = NoFailures
    /\ fetch = NoFetch
    /\ tier_call = NoTierCall
    /\ ArbIdle

SpecLife == InitStartup /\ [][LifeNext]_vars

\* the copy-trading bot with the merge arm of post_order entered as well
CopyMergeNext == CopyNext \/ MergeNext

SpecMerge == InitCopy /\ [][CopyMergeNext]_vars

----------------------------------------------------------------------------
\* COPY-TRADING BOT: the buy strategy under a configured position limit

\* MAX_POSITION_SIZE_USD = 2.5 in an otherwise empty environment
LimitConfig == [DefaultConfig EXCEPT !.max_position_size_usd = << 250000 >>]

BuyConfigs == {DefaultConfig, LimitConfig}

\* Leader buys of $0.50, $20 and $200
BuyShapes ==
    { [side |-> "BUY", size |-> 100,   price |-> 50000],
      [side |-> "BUY", size |-> 4000,  price |-> 50000],
      [side |-> "BUY", size |-> 40000, price |-> 50000] }

\* The best ask of the book: none, 3 tokens at 0.50, 100 tokens at 0.60
BuyLevels ==
    { [price |-> 0,     size |-> 0],
      [price |-> 50000, size |-> 300],
      [price |-> 60000, size |-> 10000] }

\* the executor without aggregation (lines 528-566 of run_trade_executor),
\* on one leader buy
BuyNext ==
    \/ \E shape \in BuyShapes : ProcessTradeActivity("0xa", shape, FALSE, TRUE)
    \/ ReadTempTrades
    \/ \E db_ok \in BOOLEAN : DoTradingMark(db_ok)
    \/ \E net_ok \in BOOLEAN, my_position \in MyPositions, my_balance \in Balances,
          db_ok \in BOOLEAN :
          DoTradingPost(net_ok, my_position, 0, my_balance, db_ok)
    \/ \E level \in BuyLevels, msg \in PostOutcomes, net_ok \in BOOLEAN, db_ok \in BOOLEAN :
          StrategyLoopCounted(level, msg, net_ok, db_ok)
    \/ \E done \in 0..1 : StrategyFinish(done)
    \/ Returned

InitBuy ==
    /\ trade_aggregation_enabled = FALSE
    /\ activities = << >>
    /\ monitor_last = "none"
    /\ executor = IdleExecutor
    /\ aggregation_buffer = EmptyBuffer
    /\ strategy = NoStrategy
    /\ dispatch_count = [i \in 1..MaxActivities |-> 0]
    /\ last_order = NoCopyOrder
    /\ main_pc = "running"
    /\ rtds_conn = "open"
    /\ reconnect_attempts = 0
    /\ rtds_delay = 0
    /\ copy_strategy_config \in BuyConfigs
    /\ order_calc = NoCalc
    /\ failed_orders = NoFailures
    /\ fetch = NoFetch
    /\ tier_call = NoTierCall
    /\ ArbIdle

SpecBuy == InitBuy /\ [][BuyNext]_vars

----------------------------------------------------------------------------
\* COPY-TRADING BOT: the sizer on its own

CopyStrategies == {"PERCENTAGE", "FIXED", "ADAPTIVE"}

\* COPY_SIZE values: per cent, or dollars under FIXED
CopySizes == {5, 10, 38, 40}

\* Configurations with ADAPTIVE_MIN_PERCENT 5, ADAPTIVE_MAX_PERCENT 40 and
\* ADAPTIVE_THRESHOLD_USD 5, with and without MAX_POSITION_SIZE_USD = 30
SizerConfigs ==
    { [DefaultConfig EXCEPT !.strategy = s, !.copy_size = c,
                            !.adaptive_min_percent = << 5 >>,
                            !.adaptive_max_percent = << 40 >>,
                            !.adaptive_threshold = << USD(5) >>,
                            !.max_position_size_usd = p] :
        s \in CopyStrategies, c \in CopySizes, p \in {<< >>, << USD(30) >>} }

\* Arguments of the sizer: the leader's order, the balance, the position value
SizerTrades == {USD(2), USD(5), USD(100)}
SizerBalances == {USD(50), USD(200)}
SizerPositions == {0, USD(10)}

\* execute_buy_strategy 313-318: the call of the sizer
SizeOrder(trader_order_size, available_balance, current_position_size) ==
    /\ order_calc' =
           [ called |-> TRUE,
             trader_order_size |-> trader_order_size,
             available_balance |-> available_balance,
             current_position_size |-> current_position_size,
             result |-> calculate_order_size(copy_strategy_config, trader_order_size,
                                             available_balance, current_position_size) ]
    /\ UNCHANGED << trade_aggregation_enabled, activities, monitor_last, executor,
                    aggregation_buffer, strategy, dispatch_count, last_order,
                    main_pc, rtds_conn, reconnect_attempts, rtds_delay,
                    copy_strategy_config, failed_orders, fetch, tier_call >>
    /\ UNCHANGED arb_vars

SizerNext ==
    \E t \in SizerTrades, b \in SizerBalances, p \in SizerPositions : SizeOrder(t, b, p)

InitSizer ==
    /\ trade_aggregation_enabled = FALSE
    /\ activities = << >>
    /\ monitor_last = "none"
    /\ executor = IdleExecutor
    /\ aggregation_buffer = EmptyBuffer
    /\ strategy = NoStrategy
    /\ dispatch_count = [i \in 1..MaxActivities |-> 0]
    /\ last_order = NoCopyOrder
    /\ main_pc = "running"
    /\ rtds_conn = "open"
    /\ reconnect_attempts = 0
    /\ rtds_delay = 0
    /\ copy_strategy_config \in SizerConfigs
    /\ order_calc = NoCalc
    /\ failed_orders = NoFailures
    /\ fetch = NoFetch
    /\ tier_call = NoTierCall
    /\ ArbIdle

SpecSizer == InitSizer /\ [][SizerNext]_vars

----------------------------------------------------------------------------
\* PROPERTIES OF THE ARBITRAGE BOT

\* both asks of a price pair come from a non-empty ask side
BothAsksPresent(up, down) == up > 0 /\ down > 0

\* C1: at most one arbitrage trade task is in flight at any time: no trade
\* task is spawned while an earlier one has not finished.
C1_AtMostOneTradeInFlight ==
    Cardinality({t \in TrIds : trade_tasks[t].pc # "idle"}) <= 1

\* C10: a book update whose UP or DOWN snapshot has no asks takes no arbitrage
\* action: every recorded opportunity, every callback that goes on to the
\* latch, every key of the dedup set and every spawned trade task stems from
\* a pair of asks that are both present.
C10_NoActionWithoutBothAsks ==
    /\ \A i \in 1..Len(arbitrage_history) :
          BothAsksPresent(arbitrage_history[i].up_ask, arbitrage_history[i].down_ask)
    /\ \A c \in CbIds : callbacks[c].pc \in {"latch", "dedup"} =>
          BothAsksPresent(callbacks[c].pd.up_ask, callbacks[c].pd.down_ask)
    /\ \A k \in recent_opportunities : BothAsksPresent(k[1], k[2])
    /\ \A t \in TrIds : trade_tasks[t].pc # "idle" =>
          BothAsksPresent(trade_tasks[t].up_price, trade_tasks[t].down_price)

----------------------------------------------------------------------------
\* PROPERTIES OF THE COPY-TRADING BOT

Rows == 1..Len(activities)

\* C2: every leader activity row is dispatched to a buy or sell strategy at
\* most once, directly or as a constituent of an aggregated group, whatever
\* the poll cycles and whatever store or network calls fail.
C2_DispatchedAtMostOnce ==
    \A i \in DOMAIN dispatch_count : dispatch_count[i] <= 1

\* a row whose dispatch ended in an error is left out by a later poll that
\* picks up another row
C2_Witness ==
    \E i \in Rows :
        /\ dispatch_count[i] = 1
        /\ ~activities[i].bot
        /\ executor.pc = "do_trading"
        /\ i \notin Range(executor.slice)

\* C3: the store holds at most one activity row per transaction hash and none
\* with an empty hash; a payload whose hash is empty or already stored
\* inserts nothing.
C3_OneRowPerHash ==
    /\ [](\A i, j \in Rows : activities[i].tx = activities[j].tx => i = j)
    /\ [](\A i \in Rows : activities[i].tx # "")
    /\ [][monitor_last' \in {"empty_hash", "duplicate"} => activities' = activities]_vars

\* a payload with a stored hash has been handled
C3_Witness == monitor_last = "duplicate" /\ Len(activities) >= 1

\* C4: a row that a poll has read as unprocessed is marked in flight before
\* the next poll reads the store.  Stated on the rows the executor holds in
\* its aggregation buffer, which a poll has read: when the executor is about
\* to poll, none of them still matches find_unprocessed_trades.
C4_ReadRowsMarkedBeforeNextPoll ==
    executor.pc = "poll" =>
        \A i \in Range(aggregation_buffer.trades) : ~is_unprocessed(activities[i])

\* a row marked in flight and not written bot = true
InFlight(i) ==
    i \in Rows /\ ~activities[i].bot /\ activities[i].bot_executed_time = 1

\* C5: every activity the executor picks up eventually has bot = true
\* written: no row stays forever with bot = false and bot_executed_time = 1.
C5_NoRowStaysInFlight ==
    \A i \in 1..MaxActivities : ~<>[]InFlight(i)

\* C6: once a child order's response carries a funds or allowance message,
\* the strategy makes no further pass of its loop (posts no further child
\* order); when it returns Ok the row has bot = true and bot_executed_time =
\* retry_limit; and the executor goes on with the trades it still holds.
C6_FundsErrorEndsParent ==
    /\ [](strategy.funds_message => executor.pc \in {"finish", "returned"})
    /\ []((executor.pc = "returned" /\ strategy.funds_message /\ executor.result = "ok") =>
            /\ activities[strategy.id].bot
            /\ activities[strategy.id].bot_executed_time = retry_limit)
    /\ [][(executor.pc = "returned" /\ strategy.funds_message /\ executor.result = "ok"
              /\ executor' # executor) =>
            /\ executor'.trades = executor.trades
            /\ executor'.slice = executor.slice
            /\ executor'.pc \in {"do_trading", "route", "poll"}
            /\ executor.slice # << >> => executor'.pc = "do_trading"]_vars

\* a merge strategy has ended on a funds message while do_trading holds a
\* further trade
C6_Witness ==
    /\ executor.pc = "returned"
    /\ executor.result = "ok"
    /\ strategy.kind = "merge"
    /\ strategy.funds_message
    /\ executor.slice # << >>

\* C7: when a sell strategy in which child sells of s > 0 tokens succeeded
\* against a tracked basis b > 0 has ended, however it ended, the
\* my_bought_size of the matching BUY rows sums to b - s, or to 0 when
\* s / b >= 0.99.
C7_LedgerScaledAfterSell ==
    (executor.pc = "returned" /\ strategy.kind = "sell"
        /\ strategy.total_tokens > 0 /\ strategy.total_bought_tokens > 0) =>
    SumBought(find_all_buy_activities_from(activities, 1)) =
        IF strategy.total_tokens * 100 >= 99 * strategy.total_bought_tokens
        THEN 0
        ELSE strategy.total_bought_tokens - strategy.total_tokens

\* C8: every child order the copy strategies post is worth at least $1
\* (floor4(tokens x price)) and is for at least 1 token.
C8_OrdersMeetMinimums ==
    last_order # NoCopyOrder =>
        /\ last_order.usdc >= MIN_ORDER_SIZE_USD
        /\ last_order.tokens >= MIN_ORDER_SIZE_TOKENS

\* C9: no child order the copy strategies post has an expiry that is not in
\* the future, a price outside (0, 1) or a price whose 4-decimal floor is 0.
C9_OrdersWellFormed ==
    last_order # NoCopyOrder =>
        /\ last_order.expires_in > 0
        /\ last_order.price > 0
        /\ last_order.price < USD(1)
        /\ floor_to_4dp(last_order.price) > 0

----------------------------------------------------------------------------
\* PROPERTIES OF THE ARBITRAGE CALLBACK: time gate and dedup set

\* callback c starts trade task t in this step
Spawns(c, t) ==
    /\ callbacks[c].pc = "dedup" /\ callbacks'[c].pc = "history"
    /\ trade_tasks[t].pc = "idle" /\ trade_tasks'[t].pc = "start"

PairPrices == {0, 10000, 20000, 47000, 52004}

\* TOKEN_AMOUNT in the environment: unset or 5, and 10
EnvTokenAmounts == {500, 1000}

InitPair ==
    /\ market = 1
    /\ time_until_end = FullWindow
    /\ clob_client = "some"
    /\ orderbooks = [s \in Sides |-> NoSnap]
    /\ is_executing_trade = TRUE
    /\ recent_opportunities = {}
    /\ arbitrage_history = << >>
    /\ monitor_lock = 0
    /\ is_exec_lock = 0
    /\ callbacks = [c \in CbIds |-> IdleCb]
    /\ \E up_ask \in PairPrices, down_ask \in PairPrices, n \in EnvTokenAmounts :
          trade_tasks = [t \in TrIds |->
              IF t = 1 THEN [IdleTrade EXCEPT !.pc = "start", !.up_price = up_ask,
                                              !.down_price = down_ask,
                                              !.env_token_amount = n]
              ELSE IdleTrade]
    /\ book_updates = 0
    /\ ws_conn = "open"
    /\ subscribed_assets = 1
    /\ ws_subscription = 1
    /\ CopyIdle

PairNext ==
    \/ \E t \in TrIds : PairStart(t)
    \/ \E t \in TrIds, created \in BOOLEAN : PairSubmit(t, created)
    \/ \E t \in TrIds, filled \in BOOLEAN : PairReturn(t, filled)
    \/ \E t \in TrIds : PairFinish(t)
    \/ \E t \in TrIds : TradeTask(t)

SpecPair == InitPair /\ [][PairNext]_vars

\* position of an event in the log of a task, 0 when it is not there
LogIndex(log, ev) ==
    IF \E i \in 1..Len(log) : log[i] = ev
    THEN CHOOSE i \in 1..Len(log) : log[i] = ev
    ELSE 0

FillerKeys(k) == { << n, n >> : n \in 1..k }

InitDedup ==
    /\ market = 1
    /\ time_until_end = FullWindow
    /\ clob_client = "some"
    /\ orderbooks = [s \in Sides |-> NoSnap]
    /\ is_executing_trade = FALSE
    /\ recent_opportunities = FillerKeys(MAX_RECENT_OPPORTUNITIES - 1)
    /\ arbitrage_history = << >>
    /\ monitor_lock = 0
    /\ is_exec_lock = 0
    /\ callbacks = [c \in CbIds |-> IdleCb]
    /\ trade_tasks = [t \in TrIds |-> IdleTrade]
    /\ book_updates = 0
    /\ ws_conn = "open"
    /\ subscribed_assets = 1
    /\ ws_subscription = 1
    /\ CopyIdle

\* the steps of the callback and of the trade task while the market is open
DedupNext ==
    \/ \E c \in CbIds, side \in Sides, raw \in RawBooks :
          HandleMessage(c, side, raw, FALSE)
    \/ \E c \in CbIds : CbGate(c)
    \/ \E c \in CbIds : CbDetect(c)
    \/ \E c \in CbIds : CbLatch(c)
    \/ \E c \in CbIds : CbDedup(c)
    \/ \E c \in CbIds : CbHistory(c)
    \/ \E t \in TrIds : TradeTask(t)

SpecDedup == InitDedup /\ [][DedupNext]_vars

\* C12: an opportunity whose key is in the dedup set never starts a trade, and
\* the dedup set never holds more than 50 keys once an update has been handled.
C12_DedupSuppressesAndBounded ==
    /\ [](Cardinality(recent_opportunities) <= MAX_RECENT_OPPORTUNITIES)
    /\ [][\A c \in CbIds, t \in TrIds :
            Spawns(c, t) => opportunity_key(callbacks[c].pd) \notin recent_opportunities]_vars

\* the set is full and a callback whose key is in it reaches the decision with
\* the latch free and the market open: only the dedup test stands in the way
C12_Witness ==
    /\ Cardinality(recent_opportunities) = MAX_RECENT_OPPORTUNITIES
    /\ \E c \in CbIds :
          /\ callbacks[c].pc = "dedup"
          /\ opportunity_key(callbacks[c].pd) \in recent_opportunities
          /\ opportunity_key(callbacks[c].pd) \notin FillerKeys(MAX_RECENT_OPPORTUNITIES)
          /\ ~is_executing_trade
          /\ callbacks[c].tue > MIN_TIME_TO_TRADE_MS

\* C13: when an insertion makes the dedup set exceed 50 keys the key evicted is
\* the earliest inserted one; in particular the key a callback has just
\* inserted is still in the set when it starts the trade.
C13_InsertedKeyNeverEvicted ==
    [][\A c \in CbIds, t \in TrIds :
          Spawns(c, t) => opportunity_key(callbacks[c].pd) \in recent_opportunities']_vars

\* C15: after subscribe(asset_ids), at start-up and at every rollover, a
\* subscription frame carrying the stored asset set is eventually sent, also
\* when the socket is already connected and never drops.
C15_SubscriptionEventuallySent ==
    \A m \in 1..MaxMarkets :
        (subscribed_assets = m) ~> (ws_subscription = m \/ subscribed_assets # m)

----------------------------------------------------------------------------
\* PROPERTIES OF THE ACTIVITY STREAM CONNECTION

\* C16: connect_rtds waits min(attempt,5) * 5 s before every reconnection and
\* raises the attempt counter by one for each, and stops for good after 10
\* attempts; no path from a lost or unusable connection reaches the next
\* connect without that wait and increment.
C16_EveryReconnectWaits ==
    /\ [](rtds_conn = "sleeping" =>
            /\ reconnect_attempts \in 1..(MAX_RECONNECT_ATTEMPTS - 1)
            /\ rtds_delay = RECONNECT_DELAY_SECS *
                    (IF reconnect_attempts < 5 THEN reconnect_attempts ELSE 5))
    /\ [](rtds_conn = "gave_up" => reconnect_attempts = MAX_RECONNECT_ATTEMPTS)
    /\ [][rtds_conn = "gave_up" => rtds_conn' = "gave_up"]_vars
    /\ [][(rtds_conn # "connecting" /\ rtds_conn' = "connecting") =>
            /\ rtds_conn = "sleeping"
            /\ rtds_delay = RECONNECT_DELAY_SECS *
                    (IF reconnect_attempts < 5 THEN reconnect_attempts ELSE 5)]_vars

----------------------------------------------------------------------------
\* PROPERTIES OF START-UP AND SHUTDOWN

Historical(i) == i \in Rows /\ activities[i].tx \in HistoricalHashes

Started == main_pc \notin {"startup", "failed"}

\* C17, as the spec states it: every row that exists in the store when the bot
\* starts is marked bot = true, bot_executed_time = 999 before the stream and
\* the executor start.
C17_AllHistoricalRowsMarked999 ==
    Started => \A i \in Rows :
        Historical(i) => activities[i].bot /\ activities[i].bot_executed_time = 999

\* C17, amended: before the stream and the executor start every row of the
\* store that had bot = false is marked bot = true, bot_executed_time = 999; a
\* row that already had bot = true is left as it is; so every row that existed
\* at the start has bot = true and none is ever dispatched to a strategy.
C17_HistoricalRowsNeverDispatched ==
    /\ [](~Started => rtds_conn = "not_started" /\ executor.pc = "not_started")
    /\ [](\A i \in Rows : Historical(i) => dispatch_count[i] = 0)
    /\ [](Started => \A i \in Rows : Historical(i) =>
            /\ activities[i].bot
            /\ activities[i].tx = "0xh1" => activities[i].bot_executed_time = 999
            /\ activities[i].tx = "0xh2" => activities[i].bot_executed_time = 1)
    /\ [][main_pc = "startup" /\ main_pc' = "monitor_started" =>
            \A i \in Rows : activities[i].bot =>
                activities'[i].bot_executed_time = activities[i].bot_executed_time]_vars

\* the bot started on a store with an unfinished row, marked it 999, and its
\* executor has dispatched a trade the stream delivered afterwards
C17_Witness ==
    /\ \E i \in Rows : activities[i].tx = "0xh1" /\ activities[i].bot_executed_time = 999
    /\ \E j \in Rows : ~Historical(j) /\ dispatch_count[j] = 1

\* C18: on shutdown an HTTP request already in flight is never forcibly
\* cancelled: the task that issued it is not ended while it waits for the
\* answer.  The executor waits for the answer of a request while it fetches
\* the positions of a trade and while it is inside a pass of a strategy loop
\* (order book, then the signed order).
C18_NoRequestCancelledOnShutdown ==
    [][(main_pc = "stopping" /\ main_pc' = "ended") =>
          executor.pc \notin {"fetch", "strategy"}]_vars

\* the sum of usdc_size over the rows whose ids are in a set
RECURSIVE SumUsdc(_)
SumUsdc(ids) ==
    IF ids = {} THEN 0
    ELSE LET i == CHOOSE x \in ids : TRUE
         IN  activities[i].usdc_size + SumUsdc(ids \ {i})

\* C19: each leader activity is added to its aggregation group at most once,
\* so the group's total_usdc_size is the sum of usdc_size over the distinct
\* activities in the group.
C19_EachActivityBufferedOnce ==
    LET group == aggregation_buffer IN
    /\ \A i, j \in DOMAIN group.trades : i # j => group.trades[i] # group.trades[j]
    /\ group.total_usdc_size = SumUsdc(Range(group.trades))

\* the trader_order_size execute_buy_strategy hands to the sizer for the
\* running trade: the row's usdc_size, or the total of the group
TraderOrderSize ==
    IF executor.agg THEN executor.total ELSE activities[strategy.id].usdc_size

\* the sizer recorded below_minimum for the running buy strategy; until an
\* order has succeeded available_balance is the my_balance the sizer was given
SizerBelowMinimum ==
    /\ strategy.kind = "buy"
    /\ strategy.total_tokens = 0
    /\ calculate_order_size(copy_strategy_config, TraderOrderSize,
                            strategy.available_balance,
                            strategy.current_position_value).below_minimum

\* C20: when the sizer's amount is below min_order_size_usd (below_minimum
\* recorded), the buy strategy posts no order, and when it returns Ok the
\* activity has bot = true.
C20_BelowMinimumPostsNoOrder ==
    /\ [][executor.pc = "strategy" /\ SizerBelowMinimum => last_order' = NoCopyOrder]_vars
    /\ [](executor.pc = "returned" /\ executor.result = "ok" /\ SizerBelowMinimum =>
            activities[strategy.id].bot)

\* what the running buy strategy has spent: the sizer's amount less what
\* remains of it
Spent == strategy.final_amount - strategy.remaining

\* C21: with max_position_size_usd set, the buy strategy never spends an
\* amount that brings current_position + spent above max_position_size_usd.
C21_SpendingKeepsPositionLimit ==
    (strategy.kind = "buy" /\ copy_strategy_config.max_position_size_usd # << >> /\ Spent > 0) =>
        strategy.current_position_value + Spent <= copy_strategy_config.max_position_size_usd[1]

\* the final_amount of the last call of the sizer, had COPY_SIZE been c
FinalAmountWith(c) ==
    calculate_order_size([copy_strategy_config EXCEPT !.copy_size = c],
                         order_calc.trader_order_size, order_calc.available_balance,
                         order_calc.current_position_size).final_amount

\* C22: for each policy, with all other inputs fixed, the final_amount of
\* calculate_order_size is non-decreasing in copy_size.
C22_MonotonicInCopySize ==
    order_calc.called =>
        \A c \in CopySizes :
            c >= copy_strategy_config.copy_size =>
                FinalAmountWith(c) >= order_calc.result.final_amount

\* The scenario of C23: the default configuration (PERCENTAGE, copy_size 10,
\* max order $100, min order $1), a leader BUY of $200 being copied from a
\* balance of $50
PercentageScenario ==
    /\ strategy.kind = "buy"
    /\ copy_strategy_config = DefaultConfig
    /\ TraderOrderSize = USD(200)
    /\ strategy.available_balance + Spent = USD(50)

\* C23 as stated: in the scenario the sizer's final amount is $49.50.
C23_FinalAmountIsBalanceCap ==
    PercentageScenario => strategy.final_amount = 4950000

\* C23, amended: in the scenario the sizer's final amount is $20.00 (10 % of
\* $200; the balance cap of $49.50 does not bind); at a best ask of 0.60 the
\* buy strategy posts a child order of $20.00 for 33.33 tokens, its success
\* leaves nothing to buy, and when the strategy returns Ok the row carries
\* my_bought_size = 33.33.
C23_FinalAmountIsTenPercent ==
    /\ [](PercentageScenario => strategy.final_amount = USD(20))
    /\ [][(executor.pc = "strategy" /\ PercentageScenario /\ Spent = 0
              /\ last_order'.price = 60000) =>
            /\ last_order'.usdc = USD(20)
            /\ last_order'.tokens = 3333
            /\ strategy'.total_tokens > 0 =>
                  strategy'.total_tokens = 3333 /\ strategy'.remaining = 0]_vars
    /\ [](PercentageScenario /\ strategy.total_tokens = 3333
            /\ executor.pc = "returned" /\ executor.result = "ok" =>
               activities[strategy.id].my_bought_size = 3333)

\* the scenario has run: one order of $20.00 at 0.60 was filled and the row
\* has been written
C23_Witness ==
    /\ PercentageScenario
    /\ executor.pc = "returned" /\ executor.result = "ok"
    /\ strategy.available_balance = USD(30)
    /\ activities[strategy.id].bot
    /\ activities[strategy.id].my_bought_size = 3333

\* callback c makes the decision of line 295 in this step and it is negative:
\* the key is a duplicate, the latch is set or at most 5 s are left
Declines(c) ==
    /\ callbacks[c].pc = "dedup"
    /\ callbacks'[c].pc # "dedup"
    /\ ~CanTrade(is_executing_trade, recent_opportunities,
                 opportunity_key(callbacks[c].pd), callbacks[c].tue)

\* C24: a book update that shows ask_sum below the threshold but does not
\* start a trade (duplicate key, a trade already executing, or at most 5 s
\* to the close) leaves the latch and the dedup set unchanged.
C24_DeclinedUpdateChangesNothing ==
    [][\A c \in CbIds : Declines(c) =>
          /\ is_executing_trade' = is_executing_trade
          /\ recent_opportunities' = recent_opportunities
          /\ trade_tasks' = trade_tasks]_vars

\* the mutex callback c asks for in its next step: "latch", "monitor" or
\* "none".  At "dedup" it asks for the dedup mutex, which only a holder of
\* the latch guard asks for; the client guard is taken and dropped inside the
\* step that follows "detect", by the holder of the monitor guard.
AsksFor(c) ==
    IF callbacks[c].pc \in {"closed_check", "closed_set", "latch"} THEN "latch"
    ELSE IF callbacks[c].pc \in {"detect", "history"} THEN "monitor"
    ELSE "none"

\* callback c waits for a guard that callback d holds
WaitsOn(c, d) ==
    \/ AsksFor(c) = "latch" /\ is_exec_lock = d
    \/ AsksFor(c) = "monitor" /\ monitor_lock = d

\* C25: the latch mutex and the dedup mutex are acquired in the order
\* (latch, dedup), both are released before the trade task that does the
\* network I/O is started, and no interleaving of callbacks and trade tasks
\* deadlocks: the holder of the latch guard is at the dedup step and holds the
\* monitor guard, nobody else is at the dedup step, no callback waits on
\* itself or in a cycle, and whenever a callback is running some callback can
\* take its next step.
C25_LockOrderAndNoDeadlock ==
    /\ [](\A c \in CbIds :
            /\ is_exec_lock = c <=> callbacks[c].pc = "dedup"
            /\ monitor_lock = c <=> callbacks[c].pc \in {"latch", "dedup"}
            /\ ~WaitsOn(c, c)
            /\ \A d \in CbIds : ~(WaitsOn(c, d) /\ WaitsOn(d, c)))
    /\ []((\E c \in CbIds : callbacks[c].pc # "idle") =>
            \E c \in CbIds :
               \/ callbacks[c].pc \in {"start", "dedup"}
               \/ AsksFor(c) = "latch" /\ is_exec_lock = 0
               \/ AsksFor(c) = "monitor" /\ monitor_lock = 0)
    /\ [][\A t \in TrIds :
            (trade_tasks[t].pc = "idle" /\ trade_tasks'[t].pc = "start") =>
                is_exec_lock' = 0]_vars

\* one callback holds the latch and the monitor guards while another waits
\* for one of them and a trade task is running
C25_Witness ==
    \E c, d \in CbIds :
        /\ c # d
        /\ is_exec_lock = c
        /\ WaitsOn(d, c)
        /\ \E t \in TrIds : trade_tasks[t].pc = "start"

\* C26: the aggregation buffer mutex is held only during in-memory
\* arithmetic.  add_to_aggregation_buffer holds the guard for the step that
\* changes the buffer, get_ready_aggregated_trades from its first look at the
\* buffer to its return: no such step of the executor writes the store.
C26_BufferGuardOnlyForArithmetic ==
    [][(\/ aggregation_buffer' # aggregation_buffer
        \/ executor.pc = "get_ready" /\ executor' # executor)
          => activities' = activities]_vars

\* C27: within one parent trade, the number of child orders that fail with a
\* transient error never exceeds retry_limit.
C27_FailuresBoundedByRetryLimit == failed_orders.n <= retry_limit

\* C28: when the buy strategy ends, normally, by abort or by an error
\* returned from a book fetch or an order post, the my_bought_size of the
\* activity row is the sum of order_size / best_price over the child orders
\* that succeeded.
C28_BoughtSizePersistedOnEveryExit ==
    (executor.pc = "returned" /\ strategy.kind = "buy") =>
        activities[strategy.id].my_bought_size = strategy.total_tokens

-----------------------------------------------------------------------------
\* ARBITRAGE BOT: the text frames of the market stream, well-formed or not

\* a price or size field that is absent or is not a JSON string
Missing == "missing"

\* str::parse::<f64> on the strings of the model: the value in 1e-5 (a size
\* in 1e-2), NaN for "NaN", nothing for a string that is no number
parse_f64(str) ==
    IF str = "0.47" THEN << 47000 >>
    ELSE IF str = "0.60" THEN << 60000 >>
    ELSE IF str = "10" THEN << 1000 >>
    ELSE IF str = "NaN" THEN << NaN >>
    ELSE << >>

\* the levels of the "asks" array of a book message, as sent
WireLevels ==
    { [price |-> "0.47", size |-> "10"],  [price |-> "0.60", size |-> "NaN"],
      [price |-> "abc", size |-> "10"],   [price |-> "0.47", size |-> "abc"],
      [price |-> "NaN", size |-> "10"],   [price |-> Missing, size |-> "10"],
      [price |-> "0.60", size |-> Missing] }

\* lines 78-88: filter_map keeps the levels whose price and size are strings
\* that parse; the prices are what the model keeps of a level
RECURSIVE FilterLevels(_)
FilterLevels(levels) ==
    IF levels = << >> THEN << >>
    ELSE LET l == Head(levels)
             keep == /\ l.price # Missing /\ l.size # Missing
                     /\ parse_f64(l.price) # << >> /\ parse_f64(l.size) # << >>
         IN  (IF keep THEN << parse_f64(l.price)[1] >> ELSE << >>)
                 \o FilterLevels(Tail(levels))

\* line 89: sort_by(|a, b| a.price.partial_cmp(&b.price).unwrap()) compares
\* every element of a list of two or more; partial_cmp is None on a NaN
SortPanics(prices) ==
    Len(prices) >= 2 /\ \E i \in DOMAIN prices : prices[i] = NaN

\* the text frames a connection delivers: one that is no JSON, and book
\* messages with up to two ask levels.  (A frame whose only level has a NaN
\* price is cached with that price; what the callback makes of it is not part
\* of the reader.)
Frames ==
    { [json |-> FALSE, asks |-> << >>] } \cup
    { f \in [json : {TRUE},
             asks : {<< >>} \cup {<< a >> : a \in WireLevels}
                    \cup {<< a, b >> : a, b \in WireLevels}] :
        FilterLevels(f.asks) # << NaN >> }

\* MarketWebSocket::run 192-198 and handle_message for one text frame: a
\* frame that is no JSON is logged and dropped, a book message is parsed,
\* cached and handed to the callback; a panic ends the task of run
ReadFrame(c, side, frame) ==
    IF frame.json /\ ~SortPanics(FilterLevels(frame.asks))
    THEN HandleMessage(c, side, FilterLevels(frame.asks), FALSE)
    ELSE /\ book_updates < MaxBookUpdates
         /\ ws_conn = "open"
         /\ c = 1
         /\ book_updates' = book_updates + 1
         /\ ws_conn' = IF frame.json THEN "panicked" ELSE ws_conn
         /\ UNCHANGED << market, time_until_end, clob_client, orderbooks,
                         is_executing_trade, recent_opportunities, arbitrage_history,
                         monitor_lock, is_exec_lock, callbacks, trade_tasks,
                         subscribed_assets, ws_subscription >>
         /\ UNCHANGED copy_vars

FramesNext ==
    \/ \E c \in CbIds, side \in Sides, frame \in Frames : ReadFrame(c, side, frame)
    \/ \E c \in CbIds : CbGate(c)
    \/ \E c \in CbIds : CbDetect(c)
    \/ \E c \in CbIds : CbHistory(c)

InitFrames ==
    /\ market = 1
    /\ time_until_end = FullWindow
    /\ clob_client = "none"
    /\ orderbooks = [s \in Sides |-> NoSnap]
    /\ is_executing_trade = FALSE
    /\ recent_opportunities = {}
    /\ arbitrage_history = << >>
    /\ monitor_lock = 0
    /\ is_exec_lock = 0
    /\ callbacks = [c \in CbIds |-> IdleCb]
    /\ trade_tasks = [t \in TrIds |-> IdleTrade]
    /\ book_updates = 0
    /\ ws_conn = "open"
    /\ subscribed_assets = 1
    /\ ws_subscription = 1
    /\ CopyIdle

SpecFrames == InitFrames /\ [][FramesNext]_vars

\* C29: a malformed frame never stops the reader of the market stream: the
\* frame is dropped or its bad levels are ignored, and the frames after it
\* are still processed.
C29_MalformedFrameNeverStopsReader == ws_conn # "panicked"

-----------------------------------------------------------------------------
\* COPY-TRADING BOT: fetch_data

\* what one GET can meet: a 2xx response whose body is JSON or is not, another
\* status, or an error of send()
FetchOutcomes == {"success", "bad_body", "http_5xx", "http_4xx", "timeout", "connect"}

\* the reqwest::Error of an outcome, as is_network_error reads it; an error
\* of send() carries no status
ErrorOf(outcome) ==
    [ is_timeout |-> outcome = "timeout", is_connect |-> outcome = "connect",
      is_request |-> FALSE, status |-> << >> ]

is_network_error(error) ==
    error.is_timeout \/ error.is_connect \/ error.is_request \/ error.status = << >>

\* let retry_delay_ms = 1000u64
retry_delay_ms == 1000

\* fetch_data is called: `for attempt in 1..=retry_limit`, and the Err after
\* the loop when there is nothing to iterate
FetchCall(limit) ==
    /\ fetch.pc = "idle"
    /\ fetch' = IF limit = 0
                THEN [NoFetch EXCEPT !.pc = "returned", !.result = "err"]
                ELSE [NoFetch EXCEPT !.pc = "sending", !.attempt = 1,
                                     !.retry_limit = limit]
    /\ UNCHANGED << trade_aggregation_enabled, activities, monitor_last, executor,
                    aggregation_buffer, strategy, dispatch_count, last_order,
                    main_pc, rtds_conn, reconnect_attempts, rtds_delay,
                    copy_strategy_config, order_calc, failed_orders, tier_call >>
    /\ UNCHANGED arb_vars

\* one pass of the loop up to its sleep: the match on the result of send()
FetchAttempt(outcome) ==
    LET f    == [fetch EXCEPT !.outcomes = Append(@, outcome)]
        last == fetch.attempt = fetch.retry_limit
        again == [f EXCEPT !.attempt = @ + 1, !.waits = Append(@, 0)]
    IN
    /\ fetch.pc = "sending"
    /\ fetch' =
          IF outcome = "success" THEN [f EXCEPT !.pc = "returned", !.result = "ok"]
          ELSE IF outcome = "bad_body" THEN [f EXCEPT !.pc = "returned", !.result = "err"]
          ELSE IF outcome \in {"http_5xx", "http_4xx"}
          THEN IF last THEN [f EXCEPT !.pc = "returned", !.result = "err"] ELSE again
          ELSE IF is_network_error(ErrorOf(outcome)) /\ ~last
          THEN [f EXCEPT !.pc = "sleeping"]
          ELSE [f EXCEPT !.pc = "returned", !.result = "err"]
    /\ UNCHANGED << trade_aggregation_enabled, activities, monitor_last, executor,
                    aggregation_buffer, strategy, dispatch_count, last_order,
                    main_pc, rtds_conn, reconnect_attempts, rtds_delay,
                    copy_strategy_config, order_calc, failed_orders, tier_call >>
    /\ UNCHANGED arb_vars

\* tokio::time::sleep(delay_ms) and `continue`
FetchSleep ==
    LET delay_ms == retry_delay_ms * 2 ^ (fetch.attempt - 1) IN
    /\ fetch.pc = "sleeping"
    /\ fetch' = [fetch EXCEPT !.pc = "sending", !.attempt = @ + 1,
                              !.waits = Append(@, delay_ms)]
    /\ UNCHANGED << trade_aggregation_enabled, activities, monitor_last, executor,
                    aggregation_buffer, strategy, dispatch_count, last_order,
                    main_pc, rtds_conn, reconnect_attempts, rtds_delay,
                    copy_strategy_config, order_calc, failed_orders, tier_call >>
    /\ UNCHANGED arb_vars

FetchNext ==
    \/ \E limit \in 0..MaxNetworkRetryLimit : FetchCall(limit)
    \/ \E outcome \in FetchOutcomes : FetchAttempt(outcome)
    \/ FetchSleep

InitFetch == CopyIdle /\ main_pc = "running" /\ ArbIdle

SpecFetch == InitFetch /\ [][FetchNext]_vars

\* C30: fetch_data makes at most network_retry_limit attempts and returns the
\* first successful response; between consecutive attempts after a timeout, a
\* connection failure or a 5xx response it waits 1 s, 2 s, 4 s, ...; after
\* the last attempt fails it returns an error.
C30_FetchRetriesWithBackoff ==
    LET n == Len(fetch.outcomes) IN
    /\ n <= fetch.retry_limit
    /\ \A k \in 1..n :
          fetch.outcomes[k] = "success" =>
              k = n /\ fetch.pc = "returned" /\ fetch.result = "ok"
    /\ \A k \in DOMAIN fetch.waits :
          fetch.outcomes[k] \in {"timeout", "connect", "http_5xx"} =>
              fetch.waits[k] = 1000 * 2 ^ (k - 1)
    /\ (n = fetch.retry_limit /\ fetch.pc # "idle"
          /\ (n > 0 => fetch.outcomes[n] # "success")) =>
              fetch.pc = "returned" /\ fetch.result = "err"

-----------------------------------------------------------------------------
\* COPY-TRADING BOT: the tiers of TIERED_MULTIPLIERS

\* the bounds a tier can carry, and the sizes of a leader trade
TierBounds == {0, USD(100), USD(200), NaN}
TierSizes == {0, USD(50), USD(100), USD(150), USD(200), USD(250)}

\* the parts of the input, "min-max:m" or "min+:m"; the multiplier of a
\* part is its place in the input
TierParts(m) ==
    [min : TierBounds, max : {<< >>} \cup {<< b >> : b \in TierBounds}, multiplier : {m}]

TierInputs ==
    {<< a >> : a \in TierParts(1)}
    \cup {<< a, b >> : a \in TierParts(1), b \in TierParts(2)}
    \cup {<< a, b, c >> : a \in TierParts(1), b \in TierParts(2), c \in TierParts(3)}

\* parse_copy_strategy_from_env 136-137: the environment is read once
TierParse(parts) ==
    /\ ~tier_call.called
    /\ tier_call' = [ called |-> TRUE, parts |-> parts,
                      parsed |-> parse_tiered_multipliers(parts),
                      asked |-> FALSE, trader_order_size |-> 0, multiplier |-> 0 ]
    /\ UNCHANGED << trade_aggregation_enabled, activities, monitor_last, executor,
                    aggregation_buffer, strategy, dispatch_count, last_order,
                    main_pc, rtds_conn, reconnect_attempts, rtds_delay,
                    copy_strategy_config, order_calc, failed_orders, fetch >>
    /\ UNCHANGED arb_vars

\* calculate_order_size 125: get_trade_multiplier under the accepted tiers
TierMultiplier(trader_order_size) ==
    LET config == [copy_strategy_config EXCEPT
                       !.tiered_multipliers = << tier_call.parsed.tiers >>]
    IN
    /\ tier_call.called
    /\ tier_call.parsed.ok
    /\ tier_call' = [tier_call EXCEPT
                         !.asked = TRUE,
                         !.trader_order_size = trader_order_size,
                         !.multiplier = get_trade_multiplier(config, trader_order_size)]
    /\ UNCHANGED << trade_aggregation_enabled, activities, monitor_last, executor,
                    aggregation_buffer, strategy, dispatch_count, last_order,
                    main_pc, rtds_conn, reconnect_attempts, rtds_delay,
                    copy_strategy_config, order_calc, failed_orders, fetch >>
    /\ UNCHANGED arb_vars

TiersNext ==
    \/ \E parts \in TierInputs : TierParse(parts)
    \/ \E size \in TierSizes : TierMultiplier(size)

InitTiers == CopyIdle /\ main_pc = "running" /\ ArbIdle

SpecTiers == InitTiers /\ [][TiersNext]_vars

\* a leader size lies in the tier [min, max)
LiesIn(size, tier) ==
    /\ tier.min # NaN /\ size >= tier.min
    /\ (tier.max = << >> \/ (tier.max[1] # NaN /\ size < tier.max[1]))

\* C31: parse_tiered_multipliers rejects overlapping tiers and an open-ended
\* tier that is not last; for every accepted tier list and every leader size
\* that lies in some tier [min, max), get_trade_multiplier returns that
\* tier's multiplier.
C31_TiersDisjointAndMultiplierOfTier ==
    (tier_call.called /\ tier_call.parsed.ok) =>
        LET tiers == tier_call.parsed.tiers IN
        /\ \A i, j \in DOMAIN tiers :
              i # j => ~ \E x \in TierSizes : LiesIn(x, tiers[i]) /\ LiesIn(x, tiers[j])
        /\ \A i \in DOMAIN tiers : tiers[i].max = << >> => i = Len(tiers)
        /\ \A i \in DOMAIN tiers :
              (tier_call.asked /\ LiesIn(tier_call.trader_order_size, tiers[i])) =>
                  tier_call.multiplier = tiers[i].multiplier

\* C32: for one leader wallet, unprocessed activities are dispatched to
\* strategies in the order they were inserted: no activity is dispatched
\* while an activity inserted before it is still unprocessed and has not
\* been dispatched.
C32_DispatchedInInsertionOrder ==
    \A i, j \in DOMAIN activities :
        (i < j /\ dispatch_count[j] > 0) =>
            (dispatch_count[i] > 0 \/ ~is_unprocessed(activities[i]))

-----------------------------------------------------------------------------
\* COPY-TRADING BOT: the sell strategy on positions of several sizes

\* TRADE_MULTIPLIER unset, and TRADE_MULTIPLIER = 3
SellConfigs == {DefaultConfig, [DefaultConfig EXCEPT !.trade_multiplier = << 3 >>]}

\* the store at start: empty, or one tracked purchase of 10 tokens
SellStores == { << >>, << ProcessedBuy("0xh1", 1000) >> }

SellShapes == { [side |-> "SELL", size |-> 4000, price |-> 50000] }
SellPositions == {50, 400, 1200}
SellLevels ==
    { [price |-> 0, size |-> 0],      [price |-> 50000, size |-> 50],
      [price |-> 50000, size |-> 300], [price |-> 50000, size |-> 2000] }

SellNext ==
    \/ \E shape \in SellShapes : ProcessTradeActivity("0xa", shape, FALSE, TRUE)
    \/ ReadTempTrades
    \/ \E db_ok \in BOOLEAN : DoTradingMark(db_ok)
    \/ \E net_ok \in BOOLEAN, my_position \in SellPositions,
          user_position \in UserPositions, db_ok \in BOOLEAN :
          DoTradingPost(net_ok, my_position, user_position, 0, db_ok)
    \/ \E level \in SellLevels, msg \in PostOutcomes, net_ok \in BOOLEAN, db_ok \in BOOLEAN :
          StrategyLoop(level, msg, net_ok, db_ok)
    \/ \E done \in 0..2 : StrategyFinish(done)
    \/ Returned

InitSell ==
    /\ trade_aggregation_enabled = FALSE
    /\ activities \in SellStores
    /\ monitor_last = "none"
    /\ executor = IdleExecutor
    /\ aggregation_buffer = EmptyBuffer
    /\ strategy = NoStrategy
    /\ dispatch_count = [i \in 1..MaxActivities |-> 0]
    /\ last_order = NoCopyOrder
    /\ main_pc = "running"
    /\ rtds_conn = "open"
    /\ reconnect_attempts = 0
    /\ rtds_delay = 0
    /\ copy_strategy_config \in SellConfigs
    /\ order_calc = NoCalc
    /\ failed_orders = NoFailures
    /\ fetch = NoFetch
    /\ tier_call = NoTierCall
    /\ ArbIdle

SpecSell == InitSell /\ [][SellNext]_vars

\* C33: the sell strategy never sells more than the vault's position: the
\* total sold by the successful child orders of one parent is at most the
\* position read at the start of the parent, and every child order posted is
\* for at least MIN_ORDER_SIZE_TOKENS.
C33_SellsAtMostThePosition ==
    strategy.kind = "sell" =>
        /\ strategy.total_tokens <= strategy.my_position
        /\ strategy.total_tokens + strategy.remaining <= strategy.my_position
        /\ last_order.strategy = "sell" => last_order.tokens >= MIN_ORDER_SIZE_TOKENS

\* the calculated size was above the position, and the whole position, and
\* no more, has been sold
C33_Witness ==
    /\ strategy.kind = "sell"
    /\ strategy.total_tokens = strategy.my_position
    /\ strategy.total_tokens > 0
    /\ strategy.total_bought_tokens > strategy.my_position
    /\ last_order.strategy = "sell"

\* floor4(n * floor4(ask)), the amount of one side for n tokens
SideUsdc(n, ask) == floor_usdc(n, floor_to_4dp(ask))

\* C34: with TOKEN_AMOUNT configured as n, each side of a pair is ordered for
\* n tokens with usdc = floor4(n * floor4(ask)), and if the usdc of either
\* side is below $1 no order is submitted on either side.
C34_ConfiguredTokenAmountOrdered ==
    \A t \in TrIds :
        LET task == trade_tasks[t]
            n    == task.env_token_amount
        IN  /\ task.up.submitted =>
                  /\ task.up.tokens = n
                  /\ task.up.usdc = SideUsdc(n, task.up_price)
            /\ task.down.submitted =>
                  /\ task.down.tokens = n
                  /\ task.down.usdc = SideUsdc(n, task.down_price)
            /\ (\/ SideUsdc(n, task.up_price) < ARB_MIN_ORDER_SIZE_USD
                \/ SideUsdc(n, task.down_price) < ARB_MIN_ORDER_SIZE_USD) =>
                  (~task.up.submitted /\ ~task.down.submitted)

\* C35: the latch is true only while an arbitrage trade task is running:
\* whenever no trade task is in flight the latch is false, so it is never left
\* set across a market close and rollover.
C35_LatchOnlyWhileTradeRuns ==
    is_executing_trade => \E t \in TrIds : trade_tasks[t].pc # "idle"

-----------------------------------------------------------------------------
\* ARBITRAGE BOT: the market after a market in which a pair was traded

\* the key of the pair traded in the first market, asks 0.47 and 0.47
PreviousKey == << 4700, 4700 >>

\* The first market has just reached its end: its one trade, on PreviousKey,
\* has returned and released the latch, its books are cached and the socket is
\* connected with the subscription of the first market
InitNextMarket ==
    /\ market = 1
    /\ time_until_end = 0
    /\ clob_client = "some"
    /\ orderbooks = [s \in Sides |-> parse_orderbook_snapshot(<< 47000 >>)]
    /\ is_executing_trade = FALSE
    /\ recent_opportunities = {PreviousKey}
    /\ arbitrage_history = << [up_ask |-> 47000, down_ask |-> 47000] >>
    /\ monitor_lock = 0
    /\ is_exec_lock = 0
    /\ callbacks = [c \in CbIds |-> IdleCb]
    /\ trade_tasks = [t \in TrIds |-> IdleTrade]
    /\ book_updates = 0
    /\ ws_conn = "open"
    /\ subscribed_assets = 1
    /\ ws_subscription = 1
    /\ CopyIdle

\* every step of the bot but the clock: the market found at the rollover stays
\* open
NextMarketNext ==
    \/ Rollover
    \/ \E c \in CbIds, side \in Sides, raw \in RawBooks, stale \in BOOLEAN :
          HandleMessage(c, side, raw, stale)
    \/ \E c \in CbIds : CbGate(c)
    \/ \E c \in CbIds : CbClosedCheck(c)
    \/ \E c \in CbIds : CbClosedSet(c)
    \/ \E c \in CbIds : CbDetect(c)
    \/ \E c \in CbIds : CbLatch(c)
    \/ \E c \in CbIds : CbDedup(c)
    \/ \E c \in CbIds : CbHistory(c)
    \/ \E t \in TrIds : TradeTask(t)
    \/ \E ok \in BOOLEAN : WsConnect(ok)
    \/ WsDisconnect
    \/ WsSleep

SpecNextMarket == InitNextMarket /\ [][NextMarketNext]_vars

\* C36: the dedup set of one market does not suppress opportunities of the
\* next: a callback of the new market that decides with the latch free and more
\* than 5 s left starts a trade although its key is the one traded in the
\* previous market.
C36_PreviousMarketKeyNotSuppressed ==
    [][\A c \in CbIds :
          ( /\ callbacks[c].pc = "dedup" /\ callbacks'[c].pc # "dedup"
            /\ market = 2
            /\ opportunity_key(callbacks[c].pd) = PreviousKey
            /\ ~is_executing_trade
            /\ callbacks[c].tue > MIN_TIME_TO_TRADE_MS )
          => \E t \in TrIds : Spawns(c, t)]_vars

-----------------------------------------------------------------------------
\* COPY-TRADING BOT: the child-order loops of the three strategies

\* a leader buy and a leader sell of 40 tokens at 0.50, and a leader buy of
\* 133.7 tokens at 0.53 ($70.861)
LoopShapes ==
    { [side |-> "BUY",  size |-> 4000,  price |-> 50000],
      [side |-> "SELL", size |-> 4000,  price |-> 50000],
      [side |-> "BUY",  size |-> 13370, price |-> 53000] }

\* The best level of the book: none, a level of size 0, 0.5 tokens and 3 tokens
\* at 0.50
LoopLevels ==
    { NoLevel, [price |-> 50000, size |-> 0],
      [price |-> 50000, size |-> 50], [price |-> 50000, size |-> 300] }

LoopPositions == {400}
LoopBalances == {USD(50)}

LoopsNext ==
    \/ \E shape \in LoopShapes : ProcessTradeActivity("0xa", shape, FALSE, TRUE)
    \/ ReadTempTrades
    \/ \E db_ok \in BOOLEAN : DoTradingMark(db_ok)
    \/ \E net_ok \in BOOLEAN, my_position \in LoopPositions,
          user_position \in UserPositions, my_balance \in LoopBalances, db_ok \in BOOLEAN :
          DoTradingPost(net_ok, my_position, user_position, my_balance, db_ok)
    \/ \E net_ok \in BOOLEAN, my_position \in LoopPositions, db_ok \in BOOLEAN :
          MergePost(net_ok, my_position, db_ok)
    \/ \E level \in LoopLevels, msg \in PostOutcomes, net_ok \in BOOLEAN, db_ok \in BOOLEAN :
          StrategyLoopPosted(level, msg, net_ok, db_ok)
    \/ \E done \in 0..2 : StrategyFinish(done)
    \/ Returned

InitLoops ==
    /\ trade_aggregation_enabled = FALSE
    /\ activities = << >>
    /\ monitor_last = "none"
    /\ executor = IdleExecutor
    /\ aggregation_buffer = EmptyBuffer
    /\ strategy = NoStrategy
    /\ dispatch_count = [i \in 1..MaxActivities |-> 0]
    /\ last_order = NoCopyOrder
    /\ main_pc = "running"
    /\ rtds_conn = "open"
    /\ reconnect_attempts = 0
    /\ rtds_delay = 0
    /\ copy_strategy_config = DefaultConfig
    /\ order_calc = NoCalc
    /\ failed_orders = NoFailures
    /\ fetch = NoFetch
    /\ tier_call = NoTierCall
    /\ ArbIdle

SpecLoops == InitLoops /\ [][LoopsNext]_vars

\* a pass of the loop posts a child order and the loop goes on
PostsAndGoesOn ==
    /\ executor.pc = "strategy" /\ executor'.pc = "strategy"
    /\ failed_orders'.posted = failed_orders.posted + 1

\* C37: the child-order loops of the buy, sell and merge strategies terminate
\* for every sequence of book states and order responses: every child order
\* after which the loop goes on has either lowered the remaining size or
\* raised the retry counter, so a parent issues a bounded number of them
\* although a success resets the retry counter.
C37_EveryChildOrderMakesProgress ==
    [][PostsAndGoesOn =>
          \/ strategy'.remaining < strategy.remaining
          \/ strategy'.retry = strategy.retry + 1]_vars

\* C38: the USDC spent by the successful child orders of one buy parent never
\* exceeds the final amount of the Copy Sizer nor the vault balance read at
\* the start of the trade.
C38_SpentWithinFinalAmountAndBalance ==
    (strategy.kind = "buy" /\ failed_orders.id = strategy.id) =>
        /\ failed_orders.spent <= strategy.final_amount
        /\ failed_orders.spent <= strategy.available_balance + Spent

\* C39: when an aggregated group is executed as one synthetic trade, every
\* constituent activity row ends processed (bot = true), not only the first
\* one, whose id the synthetic trade carries.
C39_EveryConstituentProcessed ==
    (executor.pc = "returned" /\ executor.agg /\ executor.result = "ok") =>
        \A i \in Range(executor.ids) : activities[i].bot

====
